---- MODULE Spec2Model ----
(***************************************************************************)
(* Model of the EnviroNet correlation engine (class Correlator) and of the *)
(* threads of main.cpp that feed it.                                       *)
(*                                                                         *)
(* Time is the steady clock in milliseconds.  Doubles that carry a signal  *)
(* strength are represented in mBm (hundredths of a dBm), so that          *)
(* signal_mbm / 100 dBm is the integer signal_mbm.                         *)
(***************************************************************************)
EXTENDS Integers, Sequences, FiniteSets, TLC

VARIABLES
    clock,                  \* std::chrono::steady_clock, in ms
    sensor_threshold_,      \* Correlator configuration
    correlation_window_ms_,
    findings_dir_,
    sensor_buffer_,         \* the five time-series buffers
    bss_buffer_,
    packet_buffer_,
    ping_buffer_,
    iperf_buffer_,
    findings_,              \* the findings ledger
    finding_callback_,
    sensor_events_,         \* statistics
    network_events_,
    correlations_found_,
    start_time_ms_,
    data_mutex_,            \* owner of the mutex, or NoThread
    findings_mutex_,
    last_error_,
    pc,                     \* per producer thread: the push_* it is inside, or "idle"
    arg,                    \* per producer thread: the event passed to that push_*
    returned,               \* the vector returned by the latest process() call
    emitted,                \* every finding returned by process() so far, in order
    after_process,          \* TRUE exactly when the latest step was a process() call
    sensor_seen,            \* size of sensor_buffer_ at the latest process() call
    drained,                \* physical samples that were new at the latest process() call
    avg_rssi_call,          \* latest calculate_avg_rssi call: arguments and result
    rssi_delta_call,        \* latest calculate_rssi_delta call: arguments and result
    in_window_call,         \* latest is_in_window call: arguments and result
    snapshot,               \* the latest get_findings call: its result and the lock state it ran in
    callback_calls,         \* the findings handed to finding_callback_, in order
    g_shutdown_requested,   \* main.cpp: the global shutdown flag
    worker_pc,              \* main.cpp: where each of the five worker threads is
    main_pc,                \* main.cpp: where main is
    running_,               \* PcapSniffer::running_
    capture_pc,             \* PcapSniffer: where the capture thread is
    pcap_handle_,           \* PcapSniffer: "null", "open" or "closed" (dangling)
    late_starts,            \* per worker: loop iterations started with the flag set
    recent_call,            \* util::Time: the latest is_recent call
    diff_call,              \* util::Time: the latest get_time_diff_ms call
    arduino,                \* the sensors::ArduinoI2C object: its data members
    init_returned,          \* whether ArduinoI2C::init has returned, and what
    reader_pc,              \* per reader thread: where it is in read_frame
    last_frame,             \* the SensorFrame of the latest read_frame that returned
    ts_log,                 \* reader and ts_ms of every frame returned, in order
    config_call,            \* core::Config: the latest operation, its input and result
    startup,                \* main: how the start-up of the program ended
    i2c_wire,               \* the I2C device: the bytes it has yet to deliver
    real_read,              \* ArduinoI2C::read_frame_real: its locals and position
    sensor_loop,            \* sensor_thread_func: its frame and what it pushed
    pcap_files              \* PcapSniffer: capture file members and rotation position

vars == << clock, sensor_threshold_, correlation_window_ms_, findings_dir_,
           sensor_buffer_, bss_buffer_, packet_buffer_, ping_buffer_, iperf_buffer_,
           findings_, finding_callback_, sensor_events_, network_events_,
           correlations_found_, start_time_ms_, data_mutex_, findings_mutex_,
           last_error_, pc, arg, returned, emitted, after_process, sensor_seen,
           drained, avg_rssi_call, rssi_delta_call, in_window_call, snapshot,
           callback_calls, g_shutdown_requested, worker_pc, main_pc, running_,
           capture_pc, pcap_handle_, late_starts, recent_call, diff_call,
           arduino, init_returned, reader_pc, last_frame, ts_log, config_call, startup,
           i2c_wire, real_read, sensor_loop, pcap_files >>

config_vars == << sensor_threshold_, correlation_window_ms_, findings_dir_ >>

counter_vars == << sensor_events_, network_events_, correlations_found_ >>

buffer_vars == << sensor_buffer_, bss_buffer_, packet_buffer_, ping_buffer_, iperf_buffer_ >>

cycle_vars == << returned, emitted, after_process, sensor_seen, drained >>

aggregate_vars == << avg_rssi_call, rssi_delta_call >>

api_vars == << in_window_call, snapshot, callback_calls >>

shutdown_vars ==
    << g_shutdown_requested, worker_pc, main_pc, running_, capture_pc, pcap_handle_,
       late_starts >>

\* State of the components around the engine: util::Time, core::Config and
\* sensors::ArduinoI2C.
time_vars == << recent_call, diff_call >>

sensor_vars == << arduino, init_returned, reader_pc, last_frame, ts_log >>

loader_vars == << config_call, startup >>

io_vars == << i2c_wire, real_read, sensor_loop, pcap_files >>

platform_vars == << time_vars, sensor_vars, loader_vars, io_vars >>

(***************************************************************************)
(* Program constants and bounds of the model.                              *)
(***************************************************************************)
DefaultSensorThreshold == 200

DefaultCorrelationWindowMs == 5000

STATUS_MOTION == 1

\* Number of clock ticks explored; one tick is one correlation window.
MaxTicks == 3

\* Total number of samples held by the five buffers together.
MaxSamples == 3

\* Number of access-point sightings in a buffer handed to the aggregates.
MaxSightings == 2

TickMs == DefaultCorrelationWindowMs

MaxClock == MaxTicks * TickMs

NoThread == "none"

NoArg == [kind |-> "none"]

Threads == {"sensor", "wifi", "pcap", "metrics"}

(***************************************************************************)
(* Events handed over by the producers.                                    *)
(***************************************************************************)
SensorFrames ==
    { [kind |-> "sensor", ts_ms |-> 30, ir_raw |-> 100, ultra_mm |-> 1200, status |-> 0],
      [kind |-> "sensor", ts_ms |-> 20, ir_raw |-> 600, ultra_mm |-> 1200, status |-> 0],
      [kind |-> "sensor", ts_ms |-> 10, ir_raw |-> 100, ultra_mm |-> 1200, status |-> 1] }

BssInfos ==
    { [kind |-> "bss", bssid |-> "ap1", signal_mbm |-> -4500, last_seen_ms |-> 0],
      [kind |-> "bss", bssid |-> "ap2", signal_mbm |-> -7000, last_seen_ms |-> 0] }

PacketMetas == { [kind |-> "packet", timestamp_ms |-> 0, length |-> 64] }

PingStatsSet == { [kind |-> "ping", avg_rtt_ms |-> 10, loss_percentage |-> 0, timestamp_ms |-> 0] }

Iperf3ResultsSet == { [kind |-> "iperf", bandwidth_mbps |-> 100, timestamp_ms |-> 0] }

Abs(x) == IF x < 0 THEN -x ELSE x

TotalSamples ==
    Len(sensor_buffer_) + Len(bss_buffer_) + Len(packet_buffer_)
        + Len(ping_buffer_) + Len(iperf_buffer_)

(***************************************************************************)
(* Correlator                                                              *)
(***************************************************************************)
get_current_time_ms == clock

\* A point stamped with the time carried inside a sensor frame.
TimeSeriesPointEmbedded(ts, val) ==
    [timestamp_ms |-> IF val.kind = "sensor" THEN val.ts_ms ELSE ts, value |-> val]

TimeSeriesPoint(ts, val) == [timestamp_ms |-> ts, value |-> val]

NoCall == [called |-> FALSE, start_time |-> 0, end_time |-> 0, result |-> 0]

NoWindowCall ==
    [called |-> FALSE, timestamp |-> << >>, window_start |-> << >>, result |-> FALSE]

NoSnapshot == [called |-> FALSE, findings |-> << >>, findings_mutex |-> NoThread]

\* The five threads main starts (main.cpp:213-217).
Workers == {"sensor", "wifi", "pcap", "metrics", "correlation"}

Readers == {"reader1", "reader2"}

\* No ArduinoI2C has been constructed yet.
NoSensor ==
    [constructed |-> FALSE, mock_mode_ |-> TRUE, bus_id_ |-> 1, addr_ |-> 16,
     sample_interval_ms_ |-> 100, fd_ |-> -1, mock_timestamp_ |-> << 0, 0 >>,
     mock_reads_ |-> 0, rng_ |-> "null", last_error_ |-> "", lock_ |-> "none"]

NoFrame == [ts_ms |-> << 0, 0 >>, ir_raw |-> 0, ultra_mm |-> 0, status |-> 0, reserved |-> 0]

NoRead == [pc |-> "idle"]

NoLoop == [pc |-> "idle"]

NoFiles == [pc |-> "none"]

NoConfigCall == [op |-> "none"]

NoStartup == [ended |-> FALSE]

NoRecentCall ==
    [called |-> FALSE, now |-> << >>, timestamp |-> << >>, window_ms |-> << >>,
     result |-> FALSE]

NoDiffCall ==
    [called |-> FALSE, start_time |-> << >>, end_time |-> << >>, diff |-> << >>,
     reverse |-> << >>]

\* The engine after Correlator::Correlator and Correlator::init, holding the
\* access-point sightings bss.
Constructed(bss) ==
    /\ clock = 0
    /\ sensor_threshold_ = DefaultSensorThreshold
    /\ correlation_window_ms_ = DefaultCorrelationWindowMs
    /\ findings_dir_ = "findings"
    /\ sensor_buffer_ = << >>
    /\ bss_buffer_ = bss
    /\ packet_buffer_ = << >>
    /\ ping_buffer_ = << >>
    /\ iperf_buffer_ = << >>
    /\ findings_ = << >>
    /\ finding_callback_ = "log_finding"
    /\ sensor_events_ = 0
    /\ network_events_ = 0
    /\ correlations_found_ = 0
    /\ start_time_ms_ = 0
    /\ data_mutex_ = NoThread
    /\ findings_mutex_ = NoThread
    /\ last_error_ = ""
    /\ pc = [t \in Threads |-> "idle"]
    /\ arg = [t \in Threads |-> NoArg]
    /\ returned = << >>
    /\ emitted = << >>
    /\ after_process = FALSE
    /\ sensor_seen = 0
    /\ drained = 0
    /\ avg_rssi_call = NoCall
    /\ rssi_delta_call = NoCall
    /\ in_window_call = NoWindowCall
    /\ snapshot = NoSnapshot
    /\ callback_calls = << >>
    /\ g_shutdown_requested = FALSE
    /\ worker_pc = [w \in Workers |-> IF w = "pcap" THEN "start" ELSE "check"]
    /\ main_pc = "wait"
    /\ running_ = FALSE
    /\ capture_pc = "none"
    /\ pcap_handle_ = "null"
    /\ late_starts = [w \in Workers |-> 0]
    /\ recent_call = NoRecentCall
    /\ diff_call = NoDiffCall
    /\ arduino = NoSensor
    /\ init_returned = [returned |-> FALSE, value |-> FALSE]
    /\ reader_pc = [r \in Readers |-> "idle"]
    /\ last_frame = NoFrame
    /\ ts_log = << >>
    /\ config_call = NoConfigCall
    /\ startup = NoStartup
    /\ i2c_wire = << >>
    /\ real_read = NoRead
    /\ sensor_loop = NoLoop
    /\ pcap_files = NoFiles

Init == Constructed(<< >>)

\* The steady clock advances.
Tick ==
    /\ clock + TickMs <= MaxClock
    /\ clock' = clock + TickMs
    /\ after_process' = FALSE
    /\ drained' = 0
    /\ UNCHANGED << config_vars, platform_vars, buffer_vars, findings_, finding_callback_,
                    counter_vars,
                    start_time_ms_, data_mutex_, findings_mutex_, last_error_, pc, arg,
                    returned, emitted, sensor_seen, aggregate_vars, api_vars, shutdown_vars >>

\* A push_* that also takes findings_mutex_ while it holds data_mutex_.
lock_guard_both(t, op, v) ==
    /\ pc[t] = "idle"
    /\ data_mutex_ = NoThread
    /\ findings_mutex_ = NoThread
    /\ TotalSamples < MaxSamples
    /\ data_mutex_' = t
    /\ findings_mutex_' = t
    /\ pc' = [pc EXCEPT ![t] = op]
    /\ arg' = [arg EXCEPT ![t] = v]
    /\ after_process' = FALSE
    /\ drained' = 0
    /\ UNCHANGED << clock, config_vars, platform_vars, buffer_vars, findings_, finding_callback_,
                    counter_vars, start_time_ms_, last_error_,
                    returned, emitted, sensor_seen, aggregate_vars, api_vars, shutdown_vars >>

\* A push_* that does not wait for data_mutex_ to be free.
lock_guard_no_wait(t, op, v) ==
    /\ pc[t] = "idle"
    /\ TotalSamples < MaxSamples
    /\ data_mutex_' = t
    /\ pc' = [pc EXCEPT ![t] = op]
    /\ arg' = [arg EXCEPT ![t] = v]
    /\ after_process' = FALSE
    /\ drained' = 0
    /\ UNCHANGED << clock, config_vars, platform_vars, buffer_vars, findings_, finding_callback_,
                    counter_vars, start_time_ms_, findings_mutex_, last_error_,
                    returned, emitted, sensor_seen, aggregate_vars, api_vars, shutdown_vars >>

\* Thread t enters push_* `op` with event v: the lock_guard takes data_mutex_.
lock_guard(t, op, v) ==
    /\ pc[t] = "idle"
    /\ data_mutex_ = NoThread
    /\ TotalSamples < MaxSamples
    /\ data_mutex_' = t
    /\ pc' = [pc EXCEPT ![t] = op]
    /\ arg' = [arg EXCEPT ![t] = v]
    /\ after_process' = FALSE
    /\ drained' = 0
    /\ UNCHANGED << clock, config_vars, platform_vars, buffer_vars, findings_, finding_callback_,
                    counter_vars, start_time_ms_, findings_mutex_, last_error_,
                    returned, emitted, sensor_seen, aggregate_vars, api_vars, shutdown_vars >>

\* A push_* that returns without releasing data_mutex_.
unlock_guard_leak(t, op) ==
    /\ pc[t] = op
    /\ data_mutex_ = t
    /\ pc' = [pc EXCEPT ![t] = "idle"]
    /\ arg' = [arg EXCEPT ![t] = NoArg]
    /\ after_process' = FALSE
    /\ drained' = 0
    /\ UNCHANGED << clock, config_vars, platform_vars, findings_, finding_callback_, counter_vars,
                    start_time_ms_, data_mutex_, findings_mutex_, last_error_, returned,
                    emitted, sensor_seen, aggregate_vars, api_vars, shutdown_vars >>

\* Thread t leaves push_* `op`: the lock_guard releases data_mutex_.
unlock_guard(t, op) ==
    /\ pc[t] = op
    /\ data_mutex_ = t
    /\ data_mutex_' = NoThread
    /\ pc' = [pc EXCEPT ![t] = "idle"]
    /\ arg' = [arg EXCEPT ![t] = NoArg]
    /\ after_process' = FALSE
    /\ drained' = 0
    /\ UNCHANGED << clock, config_vars, platform_vars, findings_, finding_callback_, counter_vars,
                    start_time_ms_, findings_mutex_, last_error_, returned, emitted,
                    sensor_seen, aggregate_vars, api_vars, shutdown_vars >>

push_sensor_enter == \E f \in SensorFrames : lock_guard("sensor", "push_sensor", f)

push_sensor ==
    /\ unlock_guard("sensor", "push_sensor")
    /\ sensor_buffer_' =
           Append(sensor_buffer_, TimeSeriesPoint(get_current_time_ms, arg["sensor"]))
    /\ UNCHANGED << bss_buffer_, packet_buffer_, ping_buffer_, iperf_buffer_ >>

push_bss_enter == \E b \in BssInfos : lock_guard("wifi", "push_bss", b)

push_bss ==
    /\ unlock_guard("wifi", "push_bss")
    /\ bss_buffer_' = Append(bss_buffer_, TimeSeriesPoint(get_current_time_ms, arg["wifi"]))
    /\ UNCHANGED << sensor_buffer_, packet_buffer_, ping_buffer_, iperf_buffer_ >>

push_packet_enter == \E p \in PacketMetas : lock_guard("pcap", "push_packet", p)

\* push_packet pasted from push_bss without renaming the buffer.
push_packet_pasted ==
    /\ unlock_guard("pcap", "push_packet")
    /\ bss_buffer_' = Append(bss_buffer_, TimeSeriesPoint(get_current_time_ms, arg["pcap"]))
    /\ UNCHANGED << sensor_buffer_, packet_buffer_, ping_buffer_, iperf_buffer_ >>

push_packet ==
    /\ unlock_guard("pcap", "push_packet")
    /\ packet_buffer_' =
           Append(packet_buffer_, TimeSeriesPoint(get_current_time_ms, arg["pcap"]))
    /\ UNCHANGED << sensor_buffer_, bss_buffer_, ping_buffer_, iperf_buffer_ >>

push_ping_stats_enter == \E s \in PingStatsSet : lock_guard("metrics", "push_ping_stats", s)

push_ping_stats ==
    /\ unlock_guard("metrics", "push_ping_stats")
    /\ ping_buffer_' =
           Append(ping_buffer_, TimeSeriesPoint(get_current_time_ms, arg["metrics"]))
    /\ UNCHANGED << sensor_buffer_, bss_buffer_, packet_buffer_, iperf_buffer_ >>

push_iperf3_results_enter ==
    \E r \in Iperf3ResultsSet : lock_guard("metrics", "push_iperf3_results", r)

push_iperf3_results ==
    /\ unlock_guard("metrics", "push_iperf3_results")
    /\ iperf_buffer_' =
           Append(iperf_buffer_, TimeSeriesPoint(get_current_time_ms, arg["metrics"]))
    /\ UNCHANGED << sensor_buffer_, bss_buffer_, packet_buffer_, ping_buffer_ >>

(***************************************************************************)
(* Trigger detection as the design describes it: the difference between    *)
(* two consecutive physical samples.  The engine's process() does not      *)
(* compute these; the properties below and the variants of process() do.   *)
(***************************************************************************)
ir_raw_delta(prev, new) == Abs(new.ir_raw - prev.ir_raw)

ultra_distance_delta(prev, new) == Abs(new.ultra_mm - prev.ultra_mm)

MotionSet(frame) == (frame.status % (2 * STATUS_MOTION)) >= STATUS_MOTION

MagnitudeTrigger(prev, new) ==
    \/ ir_raw_delta(prev, new) >= sensor_threshold_
    \/ ultra_distance_delta(prev, new) >= sensor_threshold_

StatusEdgeTrigger(prev, new) == ~MotionSet(prev) /\ MotionSet(new)

MakeFinding(ts, prev, new) ==
    [timestamp_ms |-> ts,
     event_type |-> IF StatusEdgeTrigger(prev, new) THEN "motion" ELSE "sensor_anomaly",
     ir_raw_delta |-> ir_raw_delta(prev, new),
     ultra_distance_delta |-> ultra_distance_delta(prev, new),
     sensor_status |-> new.status,
     rssi_avg |-> 0,
     rssi_delta |-> 0,
     correlation_window_ms |-> correlation_window_ms_,
     sensor_threshold |-> sensor_threshold_]

ZeroFrame == [kind |-> "sensor", ts_ms |-> 0, ir_raw |-> 0, ultra_mm |-> 0, status |-> 0]

\* One finding for every pair (buf[i-1], buf[i]), i >= from, that triggers; no debounce.
RECURSIVE FindingsFrom(_, _)
FindingsFrom(buf, from) ==
    IF from > Len(buf) THEN << >>
    ELSE (IF from >= 2 /\ (\/ MagnitudeTrigger(buf[from - 1].value, buf[from].value)
                           \/ StatusEdgeTrigger(buf[from - 1].value, buf[from].value))
          THEN << MakeFinding(buf[from].timestamp_ms, buf[from - 1].value, buf[from].value) >>
          ELSE << >>)
         \o FindingsFrom(buf, from + 1)

\* process() that fires on every new crossing pair, without debounce.
process_no_debounce == FindingsFrom(sensor_buffer_, sensor_seen + 1)

\* process() that scans the whole sensor buffer again on every call.
process_rescan == FindingsFrom(sensor_buffer_, 1)

\* process() that diffs the first sample against a zero-initialised previous frame.
process_zero_prev ==
    (IF sensor_seen = 0 /\ Len(sensor_buffer_) >= 1
        /\ MagnitudeTrigger(ZeroFrame, sensor_buffer_[1].value)
     THEN << MakeFinding(sensor_buffer_[1].timestamp_ms, ZeroFrame, sensor_buffer_[1].value) >>
     ELSE << >>)

\* What Correlator::process returns: `return {};`.
process_result == << >>

get_stats ==
    [sensor_events |-> sensor_events_,
     network_events |-> network_events_,
     correlations_found |-> correlations_found_]

\* One cycle of the correlation thread: a call of Correlator::process.  It takes no
\* lock, reads no buffer and writes no member.
process ==
    /\ returned' = process_result
    /\ emitted' = emitted \o process_result
    /\ after_process' = TRUE
    /\ drained' = Len(sensor_buffer_) - sensor_seen
    /\ sensor_seen' = Len(sensor_buffer_)
    /\ UNCHANGED << clock, config_vars, platform_vars, buffer_vars, findings_, finding_callback_,
                    counter_vars, start_time_ms_, data_mutex_, findings_mutex_,
                    last_error_, pc, arg, aggregate_vars, api_vars, shutdown_vars >>

Next ==
    \/ Tick
    \/ push_sensor_enter
    \/ push_sensor
    \/ push_bss_enter
    \/ push_bss
    \/ push_packet_enter
    \/ push_packet
    \/ push_ping_stats_enter
    \/ push_ping_stats
    \/ push_iperf3_results_enter
    \/ push_iperf3_results
    \/ process

Spec == Init /\ [][Next]_vars

(***************************************************************************)
(* The window aggregates, applied to a buffer of access-point sightings.   *)
(* Results are in mBm; both functions return the literal 0.0.              *)
(***************************************************************************)
\* An average that reports a floor of -100 dBm when the window holds no sighting.
calculate_avg_rssi_floor(start_time, end_time) ==
    IF SelectSeq(bss_buffer_, LAMBDA p : start_time <= p.timestamp_ms
                                           /\ p.timestamp_ms <= end_time) = << >>
    THEN -10000
    ELSE 0

calculate_avg_rssi(start_time, end_time) == 0

calculate_rssi_delta(start_time, end_time) == 0

SightingTimes == {500, 1000, 4000, 6000}

WindowStarts == {500, 1000}

SightingPoints == { TimeSeriesPoint(t, b) : t \in SightingTimes, b \in BssInfos }

\* The buffers push_bss can build: arrival timestamps never decrease.
SortedSightings ==
    UNION { { s \in [1..n -> SightingPoints] :
                \A i \in 1..(n - 1) : s[i].timestamp_ms <= s[i + 1].timestamp_ms } :
            n \in 0..MaxSightings }

InitAggregate == \E bss \in SortedSightings : Constructed(bss)

call_calculate_avg_rssi ==
    /\ \E t \in WindowStarts :
           avg_rssi_call' =
               [called |-> TRUE, start_time |-> t, end_time |-> t + correlation_window_ms_,
                result |-> calculate_avg_rssi(t, t + correlation_window_ms_)]
    /\ UNCHANGED << clock, config_vars, platform_vars, buffer_vars, findings_, finding_callback_,
                    counter_vars, start_time_ms_, data_mutex_, findings_mutex_,
                    last_error_, pc, arg, cycle_vars, rssi_delta_call, api_vars,
                    shutdown_vars >>

call_calculate_rssi_delta ==
    /\ \E t \in WindowStarts :
           rssi_delta_call' =
               [called |-> TRUE, start_time |-> t, end_time |-> t + correlation_window_ms_,
                result |-> calculate_rssi_delta(t, t + correlation_window_ms_)]
    /\ UNCHANGED << clock, config_vars, platform_vars, buffer_vars, findings_, finding_callback_,
                    counter_vars, start_time_ms_, data_mutex_, findings_mutex_,
                    last_error_, pc, arg, cycle_vars, avg_rssi_call, api_vars,
                    shutdown_vars >>

NextAggregate ==
    \/ call_calculate_avg_rssi
    \/ call_calculate_rssi_delta

SpecAggregate == InitAggregate /\ [][NextAggregate]_vars

(***************************************************************************)
(* Properties                                                              *)
(***************************************************************************)
NonDecreasing(buf) ==
    \A i \in 1..(Len(buf) - 1) : buf[i].timestamp_ms <= buf[i + 1].timestamp_ms

Buffers ==
    [push_sensor |-> sensor_buffer_,
     push_bss |-> bss_buffer_,
     push_packet |-> packet_buffer_,
     push_ping_stats |-> ping_buffer_,
     push_iperf3_results |-> iperf_buffer_]

\* C1: in every reachable state, under every interleaving of the push_* calls,
\* the timestamps of each of the five buffers are non-decreasing in buffer order.
C1_BuffersMonotonic == \A op \in DOMAIN Buffers : NonDecreasing(Buffers[op])

\* Two physical samples stored in arrival order although the later one carries the
\* smaller embedded device time.
C1_Witness ==
    /\ Len(sensor_buffer_) >= 2
    /\ sensor_buffer_[1].timestamp_ms < sensor_buffer_[2].timestamp_ms
    /\ sensor_buffer_[1].value.ts_ms > sensor_buffer_[2].value.ts_ms

\* The latest process() call ran over exactly two physical samples, the second new.
ProcessedPair ==
    /\ after_process
    /\ Len(sensor_buffer_) = 2
    /\ drained >= 1

\* C2: after process() has run on two consecutive physical samples whose magnitude
\* difference reaches sensor_threshold, it has returned exactly one finding, which
\* carries the absolute differences.
C2_OneFindingPerCrossing ==
    (ProcessedPair /\ MagnitudeTrigger(sensor_buffer_[1].value, sensor_buffer_[2].value))
        => /\ Len(returned) = 1
           /\ returned[1].ir_raw_delta =
                  ir_raw_delta(sensor_buffer_[1].value, sensor_buffer_[2].value)
           /\ returned[1].ultra_distance_delta =
                  ultra_distance_delta(sensor_buffer_[1].value, sensor_buffer_[2].value)

\* C3: a motion bit going from clear to set with both deltas below the threshold
\* yields a finding of type motion; a pair whose first sample already had the bit
\* set and whose deltas are below the threshold yields none.
C3_StatusEdgeIsMotion ==
    /\ (/\ ProcessedPair
        /\ StatusEdgeTrigger(sensor_buffer_[1].value, sensor_buffer_[2].value)
        /\ ~MagnitudeTrigger(sensor_buffer_[1].value, sensor_buffer_[2].value))
           => (Len(returned) = 1 /\ returned[1].event_type = "motion")
    /\ (/\ ProcessedPair
        /\ MotionSet(sensor_buffer_[1].value)
        /\ ~MagnitudeTrigger(sensor_buffer_[1].value, sensor_buffer_[2].value))
           => returned = << >>

AllPairsCross(buf) ==
    \A i \in 2..Len(buf) : MagnitudeTrigger(buf[i - 1].value, buf[i].value)

\* C4: when every consecutive pair of physical samples crosses the threshold, any
\* two magnitude findings returned by process() over all cycles are at least
\* correlation_window_ms apart (findings of type motion are exempt).
C4_Debounce ==
    AllPairsCross(sensor_buffer_) =>
        \A i \in 1..Len(emitted) : \A j \in (i + 1)..Len(emitted) :
            (emitted[i].event_type # "motion" /\ emitted[j].event_type # "motion")
                => emitted[j].timestamp_ms - emitted[i].timestamp_ms
                       >= correlation_window_ms_

\* process() has run over three samples, every pair crossing, all within one window.
C4_Witness ==
    /\ after_process
    /\ drained >= 1
    /\ Len(sensor_buffer_) >= 3
    /\ AllPairsCross(sensor_buffer_)
    /\ sensor_buffer_[3].timestamp_ms - sensor_buffer_[1].timestamp_ms
           < correlation_window_ms_

RetentionHorizon == 2 * correlation_window_ms_

Retained(buf) ==
    \A i \in 1..Len(buf) : buf[i].timestamp_ms + RetentionHorizon >= clock

\* C5: right after a process() cycle no buffer holds a sample older than the
\* retention horizon.
C5_PrunedAfterProcess ==
    after_process => \A op \in DOMAIN Buffers : Retained(Buffers[op])

\* C6: a process() call made when no physical sample was pushed since the previous
\* call returns an empty list and leaves the ledger and the counters unchanged.
C6_IdleProcessIsNoOp ==
    [][(after_process' /\ sensor_seen = Len(sensor_buffer_))
          => (returned' = << >> /\ findings_' = findings_ /\ get_stats' = get_stats)]_vars

\* A process() call that found nothing new, over a buffer holding a triggering pair.
C6_Witness ==
    /\ after_process
    /\ drained = 0
    /\ sensor_seen = Len(sensor_buffer_)
    /\ Len(sensor_buffer_) >= 2
    /\ MagnitudeTrigger(sensor_buffer_[1].value, sensor_buffer_[2].value)

\* C7: a process() call that has seen at most one physical sample returns nothing.
C7_FirstSampleNeverTriggers ==
    (after_process /\ Len(sensor_buffer_) <= 1) => returned = << >>

\* process() has just consumed the one and only sample, whose motion bit is set.
C7_Witness ==
    /\ after_process
    /\ drained = 1
    /\ Len(sensor_buffer_) = 1
    /\ MotionSet(sensor_buffer_[1].value)

\* The step that completes the push_* call named op.
Completion(op) ==
    CASE op = "push_sensor" -> push_sensor
      [] op = "push_bss" -> push_bss
      [] op = "push_packet" -> push_packet
      [] op = "push_ping_stats" -> push_ping_stats
      [] op = "push_iperf3_results" -> push_iperf3_results

\* C8: a push_X call in progress can always complete, and the step that completes
\* it appends exactly one sample, holding the pushed event, to buffer X and changes
\* neither the stored samples, the other buffers, the ledger, the counters, the
\* configuration nor last_error.
C8_PushFrame ==
    /\ [](\A t \in Threads : pc[t] # "idle" => ENABLED Completion(pc[t]))
    /\ [][\A t \in Threads :
             (pc[t] # "idle" /\ pc'[t] = "idle") =>
                 /\ Len(Buffers'[pc[t]]) = Len(Buffers[pc[t]]) + 1
                 /\ SubSeq(Buffers'[pc[t]], 1, Len(Buffers[pc[t]])) = Buffers[pc[t]]
                 /\ Buffers'[pc[t]][Len(Buffers[pc[t]]) + 1].value = arg[t]
                 /\ \A o \in DOMAIN Buffers \ {pc[t]} : Buffers'[o] = Buffers[o]
                 /\ findings_' = findings_
                 /\ counter_vars' = counter_vars
                 /\ config_vars' = config_vars
                 /\ last_error_' = last_error_]_vars

\* Two physical samples that trigger nothing are both stored, next to a packet.
C8_Witness ==
    /\ Len(sensor_buffer_) = 2
    /\ ~MagnitudeTrigger(sensor_buffer_[1].value, sensor_buffer_[2].value)
    /\ ~StatusEdgeTrigger(sensor_buffer_[1].value, sensor_buffer_[2].value)
    /\ Len(packet_buffer_) = 1

InRange(buf, start_time, end_time) ==
    SelectSeq(buf, LAMBDA p : start_time <= p.timestamp_ms /\ p.timestamp_ms <= end_time)

RECURSIVE SumMbm(_)
SumMbm(points) ==
    IF points = << >> THEN 0 ELSE Head(points).value.signal_mbm + SumMbm(Tail(points))

\* C9: the average signal strength of a window holding sightings is the mean of
\* their signal strengths (result times count equals the sum, in mBm).
C9_AvgRssiIsMean ==
    avg_rssi_call.called =>
        LET seen == InRange(bss_buffer_, avg_rssi_call.start_time, avg_rssi_call.end_time)
        IN  Len(seen) > 0 => avg_rssi_call.result * Len(seen) = SumMbm(seen)

\* C10: the signal-strength delta of a window holding at least two sightings is
\* the last sighting's strength minus the first one's.
C10_RssiDeltaLastMinusFirst ==
    rssi_delta_call.called =>
        LET seen == InRange(bss_buffer_, rssi_delta_call.start_time,
                            rssi_delta_call.end_time)
        IN  Len(seen) >= 2 =>
                rssi_delta_call.result =
                    seen[Len(seen)].value.signal_mbm - seen[1].value.signal_mbm

\* Finding::Finding(): the numeric fields are zero and affected_networks is empty.
Finding ==
    [timestamp_ms |-> 0, event_type |-> "", description |-> "", ir_raw_delta |-> 0,
     ultra_distance_delta |-> 0, sensor_status |-> 0, rssi_avg |-> 0, rssi_delta |-> 0,
     ping_latency_delta |-> 0, packet_loss_delta |-> 0, throughput_delta |-> 0,
     correlation_window_ms |-> 0, sensor_threshold |-> 0, affected_networks |-> {}]

\* C11: aggregating a window in which the access-point buffer holds no sample gives
\* rssi_avg = 0.0 and rssi_delta = 0.0, a default finding names no affected
\* network, and no error is recorded.
C11_EmptyWindowDefaults ==
    /\ (/\ avg_rssi_call.called
        /\ InRange(bss_buffer_, avg_rssi_call.start_time, avg_rssi_call.end_time) = << >>)
           => (avg_rssi_call.result = 0 /\ last_error_ = "")
    /\ (/\ rssi_delta_call.called
        /\ InRange(bss_buffer_, rssi_delta_call.start_time, rssi_delta_call.end_time)
               = << >>)
           => (rssi_delta_call.result = 0 /\ last_error_ = "")
    /\ Finding.affected_networks = {}

\* Both aggregates were applied to a window that lies before the only sighting.
C11_Witness ==
    /\ avg_rssi_call.called
    /\ rssi_delta_call.called
    /\ Len(bss_buffer_) >= 1
    /\ InRange(bss_buffer_, avg_rssi_call.start_time, avg_rssi_call.end_time) = << >>
    /\ InRange(bss_buffer_, rssi_delta_call.start_time, rssi_delta_call.end_time) = << >>

(***************************************************************************)
(* is_in_window on unsigned 64-bit values.  A uint64_t is four 16-bit      *)
(* limbs, most significant first; addition wraps modulo 2^64.              *)
(***************************************************************************)
LimbBase == 2 ^ 16

U64FromInt(n) == << 0, 0, n \div LimbBase, n % LimbBase >>

U64Max == << LimbBase - 1, LimbBase - 1, LimbBase - 1, LimbBase - 1 >>

\* 2^64 - 1 - k, for k below 2^16.
U64MaxMinus(k) == << LimbBase - 1, LimbBase - 1, LimbBase - 1, LimbBase - 1 - k >>

\* Carry into limb i (limb 4 is the least significant) of a + b.
RECURSIVE U64CarryInto(_, _, _)
U64CarryInto(a, b, i) ==
    IF i = 4 THEN 0 ELSE (a[i + 1] + b[i + 1] + U64CarryInto(a, b, i + 1)) \div LimbBase

\* a + b as the machine computes it: the carry out of the top limb is dropped.
U64Add(a, b) == [i \in 1..4 |-> (a[i] + b[i] + U64CarryInto(a, b, i)) % LimbBase]

\* 1 when a + b does not fit in 64 bits.
U64CarryOut(a, b) == (a[1] + b[1] + U64CarryInto(a, b, 1)) \div LimbBase

U64Leq(a, b) ==
    \/ a = b
    \/ \E i \in 1..4 : a[i] < b[i] /\ \A j \in 1..(i - 1) : a[j] = b[j]

is_in_window(ts, window_start) ==
    /\ U64Leq(window_start, ts)
    /\ U64Leq(ts, U64Add(window_start, U64FromInt(correlation_window_ms_)))

U64Samples ==
    { U64FromInt(0), U64FromInt(1), U64FromInt(4999), U64FromInt(5000), U64FromInt(5001),
      U64FromInt(10000), U64MaxMinus(5001), U64MaxMinus(5000), U64MaxMinus(4999),
      U64MaxMinus(1), U64Max }

call_is_in_window ==
    /\ \E ts \in U64Samples, window_start \in U64Samples :
           in_window_call' =
               [called |-> TRUE, timestamp |-> ts, window_start |-> window_start,
                result |-> is_in_window(ts, window_start)]
    /\ UNCHANGED << clock, config_vars, platform_vars, buffer_vars, findings_, finding_callback_,
                    counter_vars, start_time_ms_, data_mutex_, findings_mutex_,
                    last_error_, pc, arg, cycle_vars, aggregate_vars, snapshot,
                    callback_calls, shutdown_vars >>

NextWindow == call_is_in_window

SpecWindow == Init /\ [][NextWindow]_vars

\* C12: for all unsigned 64-bit ts and window_start, is_in_window is true exactly
\* when window_start <= ts <= window_start + correlation_window_ms, the sum taken
\* over the integers.
C12_ClosedForwardWindow ==
    in_window_call.called =>
        (in_window_call.result <=>
            /\ U64Leq(in_window_call.window_start, in_window_call.timestamp)
            /\ \/ U64CarryOut(in_window_call.window_start,
                              U64FromInt(correlation_window_ms_)) = 1
               \/ U64Leq(in_window_call.timestamp,
                         U64Add(in_window_call.window_start,
                                U64FromInt(correlation_window_ms_))))

(***************************************************************************)
(* Queries of the engine, callable from any thread while the producers and *)
(* process() run.                                                          *)
(***************************************************************************)
\* A get_findings that returns the findings of the samples not yet processed.
get_findings_pending == FindingsFrom(sensor_buffer_, sensor_seen + 1)

\* What Correlator::get_findings returns: a copy of findings_.
get_findings == findings_

\* A call of get_findings: it copies the ledger without taking findings_mutex_.
call_get_findings ==
    /\ snapshot' =
           [called |-> TRUE, findings |-> get_findings, findings_mutex |-> findings_mutex_]
    /\ UNCHANGED << clock, config_vars, platform_vars, buffer_vars, findings_, finding_callback_,
                    counter_vars, start_time_ms_, data_mutex_, findings_mutex_,
                    last_error_, pc, arg, cycle_vars, aggregate_vars, in_window_call,
                    callback_calls, shutdown_vars >>

NextApi ==
    \/ Next
    \/ call_get_findings

SpecApi == Init /\ [][NextApi]_vars

DropThresholdMbm == 10 * 100

ClassifyFirstMatch(status_edge, rssi_delta) ==
    IF status_edge THEN "motion"
    ELSE IF rssi_delta <= -DropThresholdMbm THEN "signal_drop"
    ELSE "sensor_anomaly"

EventTypes == {"motion", "signal_drop", "sensor_anomaly"}

\* C13: a triggering pair of samples yields a finding classified by first match
\* (motion if status-edge-driven, else signal_drop if rssi_delta is at or below
\* minus the drop threshold, else sensor_anomaly), and no finding returned by
\* process() or held in the ledger has any other event_type.
C13_ClassifiedByFirstMatch ==
    /\ \A i \in 1..Len(returned) : returned[i].event_type \in EventTypes
    /\ \A i \in 1..Len(findings_) : findings_[i].event_type \in EventTypes
    /\ (/\ ProcessedPair
        /\ \/ MagnitudeTrigger(sensor_buffer_[1].value, sensor_buffer_[2].value)
           \/ StatusEdgeTrigger(sensor_buffer_[1].value, sensor_buffer_[2].value))
           => /\ Len(returned) = 1
              /\ returned[1].event_type =
                     ClassifyFirstMatch(
                         StatusEdgeTrigger(sensor_buffer_[1].value, sensor_buffer_[2].value),
                         returned[1].rssi_delta)

\* The producer threads and the thread that runs process().
AllThreads == Threads \cup {"correlation"}

\* C14: no thread holds data_mutex_ and findings_mutex_ at the same time, and the
\* holder of data_mutex_ is always a thread inside a push_* call, which can leave it.
C14_NoTwoLocksHeld ==
    /\ \A t \in AllThreads : ~(data_mutex_ = t /\ findings_mutex_ = t)
    /\ data_mutex_ # NoThread => (data_mutex_ \in Threads /\ pc[data_mutex_] # "idle")

\* process() has run while a producer was holding data_mutex_.
C14_Witness ==
    /\ after_process
    /\ data_mutex_ \in Threads
    /\ Len(sensor_buffer_) >= 1

\* Thread u starts the push_* call(s) it makes.
Enter(u) ==
    CASE u = "sensor" -> push_sensor_enter
      [] u = "wifi" -> push_bss_enter
      [] u = "pcap" -> push_packet_enter
      [] u = "metrics" -> push_ping_stats_enter \/ push_iperf3_results_enter

\* A buffer changes only in a step of the thread that holds data_mutex_ and is
\* inside the push_* of that buffer.
MutatedUnderDataLock ==
    [][\A op \in DOMAIN Buffers :
          Buffers'[op] # Buffers[op] => (data_mutex_ \in Threads /\ pc[data_mutex_] = op)]_vars

\* C15 as stated: buffers are mutated under a lock, and an append to one buffer does
\* not have to wait for an append in progress on a different buffer.
C15_PerBufferLock ==
    \A t \in Threads : \A u \in Threads \ {t} :
        /\ (pc[t] # "idle" /\ pc[u] # "idle") => pc[t] # pc[u]
        /\ (pc[t] # "idle" /\ pc[u] = "idle" /\ TotalSamples < MaxSamples)
               => ENABLED Enter(u)

\* C15 amended: all five buffers share data_mutex_: a buffer is mutated only by the
\* thread holding it, at most one thread is inside any push_* at a time, and while
\* one is, no other thread can start an append, on whichever buffer.
C15_SingleDataLock ==
    /\ MutatedUnderDataLock
    /\ [](\A t \in Threads : \A u \in Threads \ {t} :
              pc[t] # "idle" => (pc[u] = "idle" /\ ~ENABLED Enter(u)))

\* push_sensor is in progress while the access-point buffer is in use and has room.
C15_Witness ==
    /\ pc["sensor"] = "push_sensor"
    /\ pc["wifi"] = "idle"
    /\ Len(bss_buffer_) >= 1
    /\ TotalSamples < MaxSamples

\* C16: every get_findings call copies the ledger while findings_mutex_ is held,
\* and findings_mutex_ is not the lock that guards the buffers.
C16_LedgerUnderFindingsLock ==
    /\ snapshot.called => snapshot.findings_mutex # NoThread
    /\ findings_mutex_ = NoThread \/ findings_mutex_ # data_mutex_

(***************************************************************************)
(* main.cpp: the shutdown flag, the five worker loops, the capture thread  *)
(* of PcapSniffer and the shutdown sequence of main.  A worker's pc is     *)
(* "start" (pcap only), "spawn" (pcap only), "check", "body", "sleep" or   *)
(* "done"; the calls a body makes on its collaborators return.             *)
(***************************************************************************)
engine_vars ==
    << clock, config_vars, buffer_vars, findings_, finding_callback_, counter_vars,
       start_time_ms_, data_mutex_, findings_mutex_, last_error_, pc, arg, cycle_vars,
       aggregate_vars, api_vars >>

\* g_shutdown_requested.load()
shutdown_requested == g_shutdown_requested

\* The process is running: abnormal termination ends every thread.
Alive == main_pc # "crashed"

\* Workers whose loop has a body; the pcap worker only sleeps.
BodyWorkers == Workers \ {"pcap"}

signal_handler ==
    /\ Alive
    /\ ~g_shutdown_requested
    /\ g_shutdown_requested' = TRUE
    /\ UNCHANGED << engine_vars, platform_vars, worker_pc, main_pc, running_, capture_pc,
                    pcap_handle_, late_starts >>

\* while (!g_shutdown_requested.load())
worker_check(w) ==
    /\ Alive
    /\ worker_pc[w] = "check"
    /\ worker_pc' =
           [worker_pc EXCEPT ![w] = IF shutdown_requested THEN "done"
                                    ELSE IF w \in BodyWorkers THEN "body" ELSE "sleep"]
    /\ UNCHANGED << engine_vars, platform_vars, g_shutdown_requested, main_pc, running_, capture_pc,
                    pcap_handle_, late_starts >>

\* The body of one iteration: read_frame + push_sensor, scan + push_bss, the
\* probes + push_ping_stats / push_iperf3_results, or process().
worker_body(w) ==
    /\ Alive
    /\ w \in BodyWorkers
    /\ worker_pc[w] = "body"
    /\ worker_pc' = [worker_pc EXCEPT ![w] = "sleep"]
    /\ late_starts' =
           [late_starts EXCEPT ![w] = IF g_shutdown_requested THEN @ + 1 ELSE @]
    /\ UNCHANGED << engine_vars, platform_vars, g_shutdown_requested, main_pc, running_, capture_pc,
                    pcap_handle_ >>

\* std::this_thread::sleep_for(...)
worker_sleep(w) ==
    /\ Alive
    /\ worker_pc[w] = "sleep"
    /\ worker_pc' = [worker_pc EXCEPT ![w] = "check"]
    /\ late_starts' =
           [late_starts EXCEPT
               ![w] = IF w = "pcap" /\ g_shutdown_requested THEN @ + 1 ELSE @]
    /\ UNCHANGED << engine_vars, platform_vars, g_shutdown_requested, main_pc, running_, capture_pc,
                    pcap_handle_ >>

\* PcapSniffer::start up to running_ = true; it fails when the interface, the
\* filter or the capture file cannot be set up, and pcap_thread_func returns.
pcap_start ==
    /\ Alive
    /\ worker_pc["pcap"] = "start"
    /\ \E started \in BOOLEAN :
           IF started
           THEN /\ running_' = TRUE
                /\ pcap_handle_' = "open"
                /\ worker_pc' = [worker_pc EXCEPT !["pcap"] = "spawn"]
           ELSE /\ worker_pc' = [worker_pc EXCEPT !["pcap"] = "done"]
                /\ UNCHANGED << running_, pcap_handle_ >>
    /\ UNCHANGED << engine_vars, platform_vars, g_shutdown_requested, main_pc, capture_pc,
                    late_starts >>

\* capture_thread_ = std::thread(capture_loop); return true
pcap_spawn ==
    /\ Alive
    /\ worker_pc["pcap"] = "spawn"
    /\ capture_pc' = "loop"
    /\ worker_pc' = [worker_pc EXCEPT !["pcap"] = "check"]
    /\ UNCHANGED << engine_vars, platform_vars, g_shutdown_requested, main_pc, running_,
                    pcap_handle_, late_starts >>

\* PcapSniffer::capture_loop: while (running_ && pcap_handle_)
capture_loop_check ==
    /\ Alive
    /\ capture_pc = "loop"
    /\ capture_pc' = IF running_ /\ pcap_handle_ # "null" THEN "next" ELSE "closing"
    /\ UNCHANGED << engine_vars, platform_vars, g_shutdown_requested, worker_pc, main_pc, running_,
                    pcap_handle_, late_starts >>

\* pcap_next_ex: a packet or the 1000 ms timeout (continue), or -1 / -2 (break)
capture_loop_next ==
    /\ Alive
    /\ capture_pc = "next"
    /\ \E rc \in {1, 0, -1, -2} :
           capture_pc' = IF rc \in {1, 0} THEN "loop" ELSE "closing"
    /\ UNCHANGED << engine_vars, platform_vars, g_shutdown_requested, worker_pc, main_pc, running_,
                    pcap_handle_, late_starts >>

\* close_pcap_file(); pcap_stats; then cleanup(): pcap_close(pcap_handle_) ...
capture_loop_close ==
    /\ Alive
    /\ capture_pc = "closing"
    /\ pcap_handle_' = IF pcap_handle_ = "open" THEN "closed" ELSE pcap_handle_
    /\ capture_pc' = "cleanup"
    /\ UNCHANGED << engine_vars, platform_vars, g_shutdown_requested, worker_pc, main_pc, running_,
                    late_starts >>

\* ... pcap_handle_ = nullptr, and the capture thread ends.
capture_loop_exit ==
    /\ Alive
    /\ capture_pc = "cleanup"
    /\ pcap_handle_' = "null"
    /\ capture_pc' = "exited"
    /\ UNCHANGED << engine_vars, platform_vars, g_shutdown_requested, worker_pc, main_pc, running_,
                    late_starts >>

\* main: while (!g_shutdown_requested.load()) sleep_for(1 s)
main_wait ==
    /\ main_pc = "wait"
    /\ shutdown_requested
    /\ main_pc' = "stop"
    /\ UNCHANGED << engine_vars, platform_vars, g_shutdown_requested, worker_pc, running_, capture_pc,
                    pcap_handle_, late_starts >>

\* PcapSniffer::stop: if (running_) { running_ = false; ...
stop_running ==
    /\ main_pc = "stop"
    /\ IF running_
       THEN running_' = FALSE /\ main_pc' = "stop_handle"
       ELSE main_pc' = "join_sensor" /\ UNCHANGED running_
    /\ UNCHANGED << engine_vars, platform_vars, g_shutdown_requested, worker_pc, capture_pc,
                    pcap_handle_, late_starts >>

\* ... if (pcap_handle_) ...: an unsynchronised read of the pointer
stop_handle ==
    /\ main_pc = "stop_handle"
    /\ main_pc' = IF pcap_handle_ = "null" THEN "stop_join" ELSE "stop_breakloop"
    /\ UNCHANGED << engine_vars, platform_vars, g_shutdown_requested, worker_pc, running_, capture_pc,
                    pcap_handle_, late_starts >>

\* ... pcap_breakloop(pcap_handle_): on a handle the capture thread has closed or
\* reset in the meantime the call is undefined; it returns or the process dies.
stop_breakloop ==
    /\ main_pc = "stop_breakloop"
    /\ \/ main_pc' = "stop_join"
       \/ pcap_handle_ # "open" /\ main_pc' = "crashed"
    /\ UNCHANGED << engine_vars, platform_vars, g_shutdown_requested, worker_pc, running_, capture_pc,
                    pcap_handle_, late_starts >>

\* ... if (capture_thread_.joinable()) capture_thread_.join(); }
\* Before start() has assigned capture_thread_ there is nothing to join.
stop_join ==
    /\ main_pc = "stop_join"
    /\ capture_pc \in {"none", "exited"}
    /\ main_pc' = "join_sensor"
    /\ UNCHANGED << engine_vars, platform_vars, g_shutdown_requested, worker_pc, running_, capture_pc,
                    pcap_handle_, late_starts >>

\* The thread main joins at each point of the shutdown sequence.
JoinTarget ==
    [join_sensor |-> "sensor", join_wifi |-> "wifi", join_pcap |-> "pcap",
     join_metrics |-> "metrics", join_correlation |-> "correlation"]

AfterJoin ==
    [join_sensor |-> "join_wifi", join_wifi |-> "join_pcap", join_pcap |-> "join_metrics",
     join_metrics |-> "join_correlation", join_correlation |-> "sensor_stop"]

\* if (t.joinable()) t.join();
main_join ==
    /\ main_pc \in DOMAIN JoinTarget
    /\ worker_pc[JoinTarget[main_pc]] = "done"
    /\ main_pc' = AfterJoin[main_pc]
    /\ UNCHANGED << engine_vars, platform_vars, g_shutdown_requested, worker_pc, running_, capture_pc,
                    pcap_handle_, late_starts >>

\* sensor->stop(); LOGI("Shutdown complete")
main_finish ==
    /\ main_pc = "sensor_stop"
    /\ main_pc' = "done"
    /\ UNCHANGED << engine_vars, platform_vars, g_shutdown_requested, worker_pc, running_, capture_pc,
                    pcap_handle_, late_starts >>

NextShutdown ==
    \/ signal_handler
    \/ \E w \in Workers : worker_check(w)
    \/ \E w \in Workers : worker_body(w)
    \/ \E w \in Workers : worker_sleep(w)
    \/ pcap_start
    \/ pcap_spawn
    \/ capture_loop_check
    \/ capture_loop_next
    \/ capture_loop_close
    \/ capture_loop_exit
    \/ main_wait
    \/ stop_running
    \/ stop_handle
    \/ stop_breakloop
    \/ stop_join
    \/ main_join
    \/ main_finish

\* Every thread that can take a step eventually does; signals arrive when they do.
FairShutdown ==
    /\ \A w \in Workers :
           WF_vars(worker_check(w) \/ worker_body(w) \/ worker_sleep(w))
    /\ WF_vars(pcap_start \/ pcap_spawn)
    /\ WF_vars(capture_loop_check \/ capture_loop_next \/ capture_loop_close
                   \/ capture_loop_exit)
    /\ WF_vars(main_wait \/ stop_running \/ stop_handle \/ stop_breakloop \/ stop_join
                   \/ main_join \/ main_finish)

SpecShutdown == Init /\ [][NextShutdown]_vars /\ FairShutdown

\* C17: once set, the shutdown flag is never cleared; from then on every worker loop
\* runs at most one more iteration and ends, main joins the five threads and reaches
\* the end of the shutdown sequence, and a process() call in flight completes.
C17_GracefulShutdown ==
    /\ [][g_shutdown_requested => g_shutdown_requested']_vars
    /\ [](\A w \in Workers : late_starts[w] <= 1)
    /\ [][worker_pc["correlation"] = "body"
              => worker_pc'["correlation"] \in {"body", "sleep"}]_vars
    /\ g_shutdown_requested
           ~> (main_pc = "done" /\ \A w \in Workers : worker_pc[w] = "done")

(***************************************************************************)
(* The producers and the correlation thread under fair scheduling.  A      *)
(* push_* call first blocks in the constructor of its lock_guard (pc is    *)
(* "blocked") until data_mutex_ is free.                                   *)
(***************************************************************************)
\* The events each producer thread pushes.
EventsOf ==
    [sensor |-> SensorFrames, wifi |-> BssInfos, pcap |-> PacketMetas,
     metrics |-> PingStatsSet \cup Iperf3ResultsSet]

\* The push_* operation an event is handed to.
OpOf ==
    [sensor |-> "push_sensor", bss |-> "push_bss", packet |-> "push_packet",
     ping |-> "push_ping_stats", iperf |-> "push_iperf3_results"]

\* Calls made and not yet returned.
InFlight == Cardinality({t \in Threads : pc[t] # "idle"})

\* Thread t calls push_* with event v and reaches the lock_guard.
push_call(t) ==
    /\ pc[t] = "idle"
    /\ TotalSamples + InFlight < MaxSamples
    /\ \E v \in EventsOf[t] : arg' = [arg EXCEPT ![t] = v]
    /\ pc' = [pc EXCEPT ![t] = "blocked"]
    /\ after_process' = FALSE
    /\ drained' = 0
    /\ UNCHANGED << clock, config_vars, platform_vars, buffer_vars, findings_, finding_callback_,
                    counter_vars, start_time_ms_, data_mutex_, findings_mutex_,
                    last_error_, returned, emitted, sensor_seen, aggregate_vars,
                    api_vars, shutdown_vars >>

\* std::lock_guard<std::mutex> lock(data_mutex_) returns: t owns the mutex.
lock_acquire(t) ==
    /\ pc[t] = "blocked"
    /\ data_mutex_ = NoThread
    /\ data_mutex_' = t
    /\ pc' = [pc EXCEPT ![t] = OpOf[arg[t].kind]]
    /\ after_process' = FALSE
    /\ drained' = 0
    /\ UNCHANGED << clock, config_vars, platform_vars, buffer_vars, findings_, finding_callback_,
                    counter_vars, start_time_ms_, findings_mutex_, last_error_, arg,
                    returned, emitted, sensor_seen, aggregate_vars, api_vars,
                    shutdown_vars >>

NextFair ==
    \/ \E t \in Threads : push_call(t)
    \/ \E t \in Threads : lock_acquire(t)
    \/ push_sensor
    \/ push_bss
    \/ push_packet
    \/ push_ping_stats
    \/ push_iperf3_results
    \/ process

\* A thread inside push_* runs on; a thread blocked on the mutex gets it if it is
\* free again and again; the correlation thread keeps calling process().
Fairness ==
    /\ WF_vars(push_sensor)
    /\ WF_vars(push_bss)
    /\ WF_vars(push_packet)
    /\ WF_vars(push_ping_stats)
    /\ WF_vars(push_iperf3_results)
    /\ \A t \in Threads : SF_vars(lock_acquire(t))
    /\ WF_vars(process)

SpecFair == Init /\ [][NextFair]_vars /\ Fairness

C19_CounterMatchesLedger ==
    /\ get_stats.correlations_found = Len(get_findings)
    /\ get_stats.correlations_found = Len(emitted)

\* process() has just consumed two or more new physical samples at once.
C19_Witness ==
    /\ after_process
    /\ drained >= 2
    /\ get_stats.sensor_events = 0

\* C20: the registered callback has been invoked once per finding, in the order
\* the findings were produced and before process() returned; in particular after
\* process() has run on a triggering pair the callback has received its finding.
C20_CallbackPerFinding ==
    /\ callback_calls = emitted
    /\ (/\ ProcessedPair
        /\ \/ MagnitudeTrigger(sensor_buffer_[1].value, sensor_buffer_[2].value)
           \/ StatusEdgeTrigger(sensor_buffer_[1].value, sensor_buffer_[2].value))
           => /\ Len(returned) = 1
              /\ Len(callback_calls) >= 1
              /\ callback_calls[Len(callback_calls)] = returned[1]

(***************************************************************************)
(* util::Time on unsigned 64-bit timestamps.  An int64_t is the same four  *)
(* limbs in two's complement: it is negative when the top bit is set.      *)
(***************************************************************************)
\* Borrow into limb i (limb 4 is the least significant) of a - b.
RECURSIVE U64BorrowInto(_, _, _)
U64BorrowInto(a, b, i) ==
    IF i = 4 THEN 0
    ELSE IF a[i + 1] - b[i + 1] - U64BorrowInto(a, b, i + 1) < 0 THEN 1 ELSE 0

\* a - b modulo 2^64.
U64Sub(a, b) ==
    [i \in 1..4 |-> (a[i] - b[i] - U64BorrowInto(a, b, i) + LimbBase) % LimbBase]

\* The sign bit of static_cast<int64_t>(a).
I64Negative(a) == a[1] >= LimbBase \div 2

I64Min == << LimbBase \div 2, 0, 0, 0 >>

I64Max == << LimbBase \div 2 - 1, LimbBase - 1, LimbBase - 1, LimbBase - 1 >>

\* The subtraction of two int64_t operands leaves the range of int64_t.
I64SubOverflows(a, b) ==
    /\ I64Negative(a) # I64Negative(b)
    /\ I64Negative(U64Sub(a, b)) # I64Negative(a)

\* Values an int64_t can take after an overflowing signed subtraction.
I64Outcomes == { U64FromInt(0), U64FromInt(1), I64Max, I64Min, U64Max }

\* Time::get_time_diff_ms with the operands exchanged.
get_time_diff_ms_swapped(start_time, end_time) == { U64Sub(start_time, end_time) }

\* Time::get_time_diff_ms: the set of values the call can return.
get_time_diff_ms(start_time, end_time) ==
    IF I64SubOverflows(end_time, start_time)
    THEN I64Outcomes \cup { U64Sub(end_time, start_time) }
    ELSE { U64Sub(end_time, start_time) }

\* Time::is_recent that lets now - timestamp wrap for a future timestamp.
is_recent_unguarded(now, timestamp, window_ms) ==
    U64Leq(U64Sub(now, timestamp), window_ms)

\* Time::is_recent, with now the value get_current_time_ms() returns inside it.
is_recent(now, timestamp, window_ms) ==
    IF ~U64Leq(timestamp, now) THEN FALSE
    ELSE U64Leq(U64Sub(now, timestamp), window_ms)

NowSamples == { U64FromInt(1000), U64FromInt(10000) }

TimestampSamples ==
    { U64FromInt(0), U64FromInt(999), U64FromInt(1000), U64FromInt(1001),
      U64FromInt(5000), U64FromInt(10000), U64Max }

WindowSamples == { U64FromInt(0), U64FromInt(1), U64FromInt(5000), U64Max }

DiffSamples ==
    { U64FromInt(0), U64FromInt(1), U64FromInt(1000), U64FromInt(2000),
      U64FromInt(86400000), I64Max, I64Min, U64Max }

\* Only the latest call of util::Time is on record.
call_is_recent ==
    /\ \E now \in NowSamples, timestamp \in TimestampSamples, window_ms \in WindowSamples :
           recent_call' =
               [called |-> TRUE, now |-> now, timestamp |-> timestamp,
                window_ms |-> window_ms, result |-> is_recent(now, timestamp, window_ms)]
    /\ diff_call' = NoDiffCall
    /\ UNCHANGED << engine_vars, shutdown_vars, io_vars, sensor_vars, loader_vars >>

call_get_time_diff_ms ==
    /\ \E start_time \in DiffSamples, end_time \in DiffSamples :
       \E d \in get_time_diff_ms(start_time, end_time) :
       \E r \in get_time_diff_ms(end_time, start_time) :
           diff_call' =
               [called |-> TRUE, start_time |-> start_time, end_time |-> end_time,
                diff |-> d, reverse |-> r]
    /\ recent_call' = NoRecentCall
    /\ UNCHANGED << engine_vars, shutdown_vars, io_vars, sensor_vars, loader_vars >>

NextTime ==
    \/ call_is_recent
    \/ call_get_time_diff_ms

SpecTime == Init /\ [][NextTime]_vars

\* C29: is_recent(timestamp, window_ms) is true exactly when timestamp <= now and
\* now - timestamp <= window_ms over the integers; so now itself is recent for
\* window 0, now - 1 is not, and a timestamp in the future never is.
C29_RecentIffWithinWindow ==
    recent_call.called =>
        /\ recent_call.result <=>
               /\ U64Leq(recent_call.timestamp, recent_call.now)
               /\ \/ U64CarryOut(recent_call.timestamp, recent_call.window_ms) = 1
                  \/ U64Leq(recent_call.now,
                            U64Add(recent_call.timestamp, recent_call.window_ms))
        /\ (recent_call.timestamp = recent_call.now /\ recent_call.window_ms = U64FromInt(0))
               => recent_call.result
        /\ (U64Add(recent_call.timestamp, U64FromInt(1)) = recent_call.now
                /\ recent_call.window_ms = U64FromInt(0))
               => ~recent_call.result
        /\ ~U64Leq(recent_call.timestamp, recent_call.now) => ~recent_call.result

\* is_recent has been asked about a timestamp in the future with the widest window.
C29_Witness ==
    /\ recent_call.called
    /\ ~U64Leq(recent_call.timestamp, recent_call.now)
    /\ recent_call.window_ms = U64Max
    /\ ~recent_call.result

\* The value d is end_time - start_time over the integers, for operands whose
\* difference fits an int64_t: it has the sign of the comparison and adds back.
ExactDifference(d, start_time, end_time) ==
    /\ U64Add(start_time, d) = end_time
    /\ I64Negative(d) <=> (end_time # start_time /\ U64Leq(end_time, start_time))
    /\ (d = U64FromInt(0)) <=> (end_time = start_time)

\* C30: for all unsigned 64-bit start_time and end_time, get_time_diff_ms is
\* end_time - start_time as a signed value, positive when end_time is later,
\* negative when earlier, zero when equal, and exchanging the operands negates it.
C30_SignedDifference ==
    diff_call.called =>
        /\ ExactDifference(diff_call.diff, diff_call.start_time, diff_call.end_time)
        /\ diff_call.diff # I64Min
        /\ U64Add(diff_call.diff, diff_call.reverse) = U64FromInt(0)

\* C30 amended: the same, for start_time and end_time below 2^63.
C30_SignedDifferenceBelow2p63 ==
    (/\ diff_call.called
     /\ ~I64Negative(diff_call.start_time)
     /\ ~I64Negative(diff_call.end_time))
        => /\ ExactDifference(diff_call.diff, diff_call.start_time, diff_call.end_time)
           /\ diff_call.diff # I64Min
           /\ U64Add(diff_call.diff, diff_call.reverse) = U64FromInt(0)

\* The difference of 2^63 - 1 and an earlier time has been taken.
C30_Witness ==
    /\ diff_call.called
    /\ diff_call.end_time = I64Max
    /\ diff_call.start_time = U64FromInt(1000)
    /\ ~I64Negative(diff_call.diff)

(***************************************************************************)
(* sensors::ArduinoI2C.  A uint32_t is two 16-bit limbs, most significant  *)
(* first.  Frames are read in mock mode, after init(), as main.cpp and the *)
(* tests do; the CRC of a frame is not part of this model.                 *)
(***************************************************************************)
MaxReads == 5

\* static_cast<uint32_t>(n) of an int
U32FromInt(n) == << (n \div LimbBase) % LimbBase, n % LimbBase >>

\* a + b modulo 2^32
U32Add(a, b) ==
    << (a[1] + b[1] + (a[2] + b[2]) \div LimbBase) % LimbBase, (a[2] + b[2]) % LimbBase >>

U32Less(a, b) == a[1] < b[1] \/ (a[1] = b[1] /\ a[2] < b[2])

\* cfg.i2c of the configurations a sensor is constructed from
IntervalSamples == { -100, 0, 100, 2 ^ 30, 2 ^ 30 + (2 ^ 30 - 1) }

I2cConfigs ==
    [mock_mode : BOOLEAN, bus_id : {1}, addr : {16}, sample_interval_ms : IntervalSamples]

\* ArduinoI2C::ArduinoI2C(const Config&)
ArduinoI2C_from_config ==
    /\ ~arduino.constructed
    /\ \E cfg \in I2cConfigs :
           arduino' =
               [NoSensor EXCEPT !.constructed = TRUE, !.mock_mode_ = cfg.mock_mode,
                                !.bus_id_ = cfg.bus_id, !.addr_ = cfg.addr,
                                !.sample_interval_ms_ = cfg.sample_interval_ms]
    /\ UNCHANGED << engine_vars, shutdown_vars, io_vars, time_vars, loader_vars, init_returned, reader_pc,
                    last_frame, ts_log >>

\* ArduinoI2C::ArduinoI2C(const std::string&): Config::load either yields a
\* validated configuration or throws, and the members keep their initial values.
ArduinoI2C_from_path ==
    /\ ~arduino.constructed
    /\ \/ \E cfg \in {c \in I2cConfigs : c.sample_interval_ms > 0} :
              arduino' =
                  [NoSensor EXCEPT !.constructed = TRUE, !.mock_mode_ = cfg.mock_mode,
                                   !.bus_id_ = cfg.bus_id, !.addr_ = cfg.addr,
                                   !.sample_interval_ms_ = cfg.sample_interval_ms]
       \/ arduino' =
              [NoSensor EXCEPT !.constructed = TRUE,
                               !.last_error_ = "Failed to load config: "]
    /\ UNCHANGED << engine_vars, shutdown_vars, io_vars, time_vars, loader_vars, init_returned, reader_pc,
                    last_frame, ts_log >>

\* ArduinoI2C::init: init_mock_i2c in mock mode, else init_real_i2c, which fails
\* when the bus cannot be opened or the slave address cannot be set.
ArduinoI2C_init ==
    /\ arduino.constructed
    /\ ~init_returned.returned
    /\ IF arduino.mock_mode_
       THEN /\ arduino' = [arduino EXCEPT !.rng_ = "seeded", !.mock_timestamp_ = << 0, 0 >>,
                                          !.mock_reads_ = 0]
            /\ init_returned' = [returned |-> TRUE, value |-> TRUE]
       ELSE \/ /\ arduino' = [arduino EXCEPT !.fd_ = 3]
               /\ init_returned' = [returned |-> TRUE, value |-> TRUE]
            \/ /\ arduino' = [arduino EXCEPT !.last_error_ = "Failed to open "]
               /\ init_returned' = [returned |-> TRUE, value |-> FALSE]
    /\ UNCHANGED << engine_vars, shutdown_vars, io_vars, time_vars, loader_vars, reader_pc, last_frame, ts_log >>

\* Calls of read_frame made so far, returned or not.
ReadsStarted == Len(ts_log) + Cardinality({r \in Readers : reader_pc[r] # "idle"})

\* read_frame_mock that does not take lock_.
read_frame_enter_unlocked(r) ==
    /\ init_returned.returned /\ init_returned.value /\ arduino.mock_mode_
    /\ reader_pc[r] = "idle"
    /\ ReadsStarted < MaxReads
    /\ reader_pc' = [reader_pc EXCEPT ![r] = "generate"]
    /\ UNCHANGED << engine_vars, shutdown_vars, io_vars, time_vars, loader_vars, arduino, init_returned,
                    last_frame, ts_log >>

\* read_frame -> read_frame_mock: std::lock_guard<std::mutex> guard(lock_)
read_frame_enter(r) ==
    /\ init_returned.returned /\ init_returned.value /\ arduino.mock_mode_
    /\ reader_pc[r] = "idle"
    /\ ReadsStarted < MaxReads
    /\ arduino.lock_ = "none"
    /\ arduino' = [arduino EXCEPT !.lock_ = r]
    /\ reader_pc' = [reader_pc EXCEPT ![r] = "generate"]
    /\ UNCHANGED << engine_vars, shutdown_vars, io_vars, time_vars, loader_vars, init_returned, last_frame,
                    ts_log >>

\* generate_mock_frame that stamps the interval instead of accumulating it.
generate_mock_frame_restamp(r) ==
    /\ reader_pc[r] = "generate"
    /\ arduino' =
           [arduino EXCEPT
               !.mock_reads_ = @ + 1,
               !.mock_timestamp_ = U32FromInt(arduino.sample_interval_ms_)]
    /\ reader_pc' = [reader_pc EXCEPT ![r] = "fill"]
    /\ UNCHANGED << engine_vars, shutdown_vars, io_vars, time_vars, loader_vars, init_returned, last_frame,
                    ts_log >>

\* generate_mock_frame: ++mock_reads_; mock_timestamp_ += sample_interval_ms_
generate_mock_frame_advance(r) ==
    /\ reader_pc[r] = "generate"
    /\ arduino' =
           [arduino EXCEPT
               !.mock_reads_ = @ + 1,
               !.mock_timestamp_ = U32Add(@, U32FromInt(arduino.sample_interval_ms_))]
    /\ reader_pc' = [reader_pc EXCEPT ![r] = "fill"]
    /\ UNCHANGED << engine_vars, shutdown_vars, io_vars, time_vars, loader_vars, init_returned, last_frame,
                    ts_log >>

\* std::sin in thousandths, and values the normal(0, 10) noise can take
SinSamples == { -1000, 1000 }

NoiseSamples == { -700, 700 }

\* generate_mock_frame without the two range checks on ir
clamp_ir_off(ir) == ir

\* if (ir < -512) ir = -512; if (ir > 511) ir = 511;
clamp_ir(ir) == IF ir < -512 THEN -512 ELSE IF ir > 511 THEN 511 ELSE ir

\* base + amp * std::sin(phase) + noise(*rng_), truncated to int and clamped
mock_ir(sin_phase, noise) == clamp_ir(100 + (400 * sin_phase) \div 1000 + noise)

\* s = (std::sin(phase * 0.7) + 1.0) * 0.5; ultra = 50 + s * (4000 - 50)
mock_ultra(sin_phase) == 50 + (((sin_phase + 1000) \div 2) * (4000 - 50)) \div 1000

\* generate_mock_frame from frame.ts_ms = mock_timestamp_ on, and the return of
\* read_frame_mock, which releases lock_.
read_frame_return(r) ==
    /\ reader_pc[r] = "fill"
    /\ \E sin_ir \in SinSamples, noise \in NoiseSamples, sin_ultra \in SinSamples,
          motion \in BOOLEAN :
           last_frame' =
               [ts_ms |-> arduino.mock_timestamp_,
                ir_raw |-> mock_ir(sin_ir, noise),
                ultra_mm |-> mock_ultra(sin_ultra),
                status |-> IF motion THEN STATUS_MOTION ELSE 0,
                reserved |-> 0]
    /\ ts_log' = Append(ts_log, [reader |-> r, ts_ms |-> arduino.mock_timestamp_])
    /\ arduino' = [arduino EXCEPT !.lock_ = IF @ = r THEN "none" ELSE @]
    /\ reader_pc' = [reader_pc EXCEPT ![r] = "idle"]
    /\ UNCHANGED << engine_vars, shutdown_vars, io_vars, time_vars, loader_vars, init_returned >>

NextSensor ==
    \/ ArduinoI2C_from_config
    \/ ArduinoI2C_from_path
    \/ ArduinoI2C_init
    \/ \E r \in Readers : read_frame_enter(r)
    \/ \E r \in Readers : generate_mock_frame_advance(r)
    \/ \E r \in Readers : read_frame_return(r)

SpecSensor == Init /\ [][NextSensor]_vars

\* C25: a sensor constructed from a configuration file that cannot be loaded
\* fails to initialise: init() returns false and get_last_error() is not empty.
C25_UnloadableConfigFailsInit ==
    (arduino.constructed /\ arduino.last_error_ = "Failed to load config: "
        /\ init_returned.returned)
        => (~init_returned.value /\ arduino.last_error_ # "")

\* k * n over the integers, as a high part and a 16-bit low limb.
TimesInterval(k, n) ==
    [hi |-> k * (n \div LimbBase) + (k * (n % LimbBase)) \div LimbBase,
     lo |-> (k * (n % LimbBase)) % LimbBase]

\* k * n modulo 2^32.
StampOf(k, n) == << TimesInterval(k, n).hi % LimbBase, TimesInterval(k, n).lo >>

\* k * n is below 2^32.
FitsU32(k, n) == n >= 0 /\ TimesInterval(k, n).hi < LimbBase

\* C26: in mock mode after init() the ts_ms of successive frames are strictly
\* increasing, each the previous plus sample_interval_ms as a 32-bit unsigned
\* value, and every ts_ms is greater than 0.
C26_TimestampsIncrease ==
    /\ \A k \in 1..Len(ts_log) :
           /\ ts_log[k].ts_ms = StampOf(k, arduino.sample_interval_ms_)
           /\ ts_log[k].ts_ms # << 0, 0 >>
    /\ \A k \in 1..(Len(ts_log) - 1) : U32Less(ts_log[k].ts_ms, ts_log[k + 1].ts_ms)

\* C26 amended: the k-th frame after init() carries k * sample_interval_ms modulo
\* 2^32; for a positive interval the ts_ms are strictly increasing and greater
\* than 0 as long as k * sample_interval_ms stays below 2^32.
C26_TimestampsIncreaseUntilWrap ==
    /\ \A k \in 1..Len(ts_log) :
           /\ ts_log[k].ts_ms = StampOf(k, arduino.sample_interval_ms_)
           /\ (arduino.sample_interval_ms_ > 0 /\ FitsU32(k, arduino.sample_interval_ms_))
                  => ts_log[k].ts_ms # << 0, 0 >>
    /\ \A k \in 1..(Len(ts_log) - 1) :
           (arduino.sample_interval_ms_ > 0 /\ FitsU32(k + 1, arduino.sample_interval_ms_))
               => U32Less(ts_log[k].ts_ms, ts_log[k + 1].ts_ms)

\* Four frames at an interval of 2^30 ms: the fourth timestamp has wrapped to 0.
C26_Witness ==
    /\ Len(ts_log) >= 4
    /\ arduino.sample_interval_ms_ = 2 ^ 30
    /\ ts_log[3].ts_ms = << LimbBase - 2 ^ 14, 0 >>
    /\ ts_log[4].ts_ms = << 0, 0 >>

\* C27: every frame read in mock mode has ir_raw in -512..511 and ultra_mm in
\* 1..4000.
C27_MockFrameInRange ==
    Len(ts_log) >= 1 =>
        /\ last_frame.ir_raw >= -512 /\ last_frame.ir_raw <= 511
        /\ last_frame.ultra_mm >= 1 /\ last_frame.ultra_mm <= 4000

\* A frame at the top of both ranges has been read.
C27_Witness ==
    /\ Len(ts_log) >= 1
    /\ last_frame.ir_raw = 511
    /\ last_frame.ultra_mm = 4000

\* At most one reader is inside read_frame, and it holds lock_; a reader inside
\* can always go on to return true.
ReadsSerialised ==
    /\ \A r \in Readers :
           reader_pc[r] # "idle"
               => /\ arduino.lock_ = r
                  /\ \A q \in Readers \ {r} : reader_pc[q] = "idle"
                  /\ ENABLED (generate_mock_frame_advance(r) \/ read_frame_return(r))

\* C28: concurrent read_frame calls on a mock-mode sensor all return true, are
\* serialised by the sensor's lock, and no two of them return the same ts_ms.
C28_ConcurrentReadsDistinct ==
    /\ ReadsSerialised
    /\ \A i \in 1..Len(ts_log) : \A j \in 1..Len(ts_log) :
           i # j => ts_log[i].ts_ms # ts_log[j].ts_ms

\* C28 amended: the same, the timestamps being distinct for a positive interval
\* as long as (number of calls) * sample_interval_ms stays below 2^32.
C28_ConcurrentReadsDistinctUntilWrap ==
    /\ ReadsSerialised
    /\ \A i \in 1..Len(ts_log) : \A j \in 1..Len(ts_log) :
           (/\ i # j
            /\ arduino.sample_interval_ms_ > 0
            /\ FitsU32(Len(ts_log), arduino.sample_interval_ms_))
               => ts_log[i].ts_ms # ts_log[j].ts_ms

\* Both readers have had frames, and one is reading while the other is held off.
C28_Witness ==
    /\ \E i \in 1..Len(ts_log) : ts_log[i].reader = "reader1"
    /\ \E i \in 1..Len(ts_log) : ts_log[i].reader = "reader2"
    /\ arduino.lock_ = "reader1"
    /\ arduino.sample_interval_ms_ = 100
    /\ ~ENABLED read_frame_enter("reader2")
    /\ ReadsStarted < MaxReads

(***************************************************************************)
(* core::Config.  A configuration is a record of its six sections.  An int *)
(* member is an integer, a size_t member is an unsigned 64-bit value in    *)
(* limbs, a std::string is the sequence of its pieces (a run of plain      *)
(* characters, or one character that JSON escapes, or one byte that is not *)
(* UTF-8), and ping_targets is a sequence of strings.                      *)
(***************************************************************************)

\* The number of members that differ from their initializer in a sampled
\* configuration, and the number of keys in a sampled JSON document.
MaxKeys == 2

\* Characters that a JSON string writes with a backslash.
EscapedChars == { "\"", "\\" }

\* A byte sequence that is not well-formed UTF-8.
InvalidUtf8 == { "<FF>" }

\* The member initializers of Config; set_defaults adds nothing to them.
get_defaults ==
    [ i2c |-> [ mock_mode |-> TRUE, bus_id |-> 1, addr |-> 16,
                sample_interval_ms |-> 100 ],
      wifi |-> [ iface_ap |-> << "wlan1" >>, iface_scan |-> << "wlan0" >>,
                 scan_interval_ms |-> 5000, monitor_mode |-> FALSE ],
      pcap |-> [ bpf |-> << "not (type mgt)" >>, output_dir |-> << "captures" >>,
                 max_file_size_mb |-> U64FromInt(100), max_files |-> 10 ],
      correlator |-> [ sensor_threshold |-> 200, window_ms |-> 5000,
                       findings_dir |-> << "findings" >> ],
      logging |-> [ level |-> << "info" >>,
                    file |-> << "/var/log/environet/environet.log" >>,
                    console |-> TRUE, max_size_mb |-> U64FromInt(5), max_files |-> 3 ],
      metrics |-> [ ping_targets |-> << << "8.8.8.8" >>, << "1.1.1.1" >> >>,
                    iperf_server |-> << >>, ping_interval_ms |-> 10000,
                    iperf3_duration |-> 10 ] ]

\* A variant of validate whose address check has no upper end and whose
\* log size check is missing.
validate_lenient(c) ==
    IF c.i2c.bus_id < 0 THEN "i2c.bus_id must be >= 0"
    ELSE IF c.i2c.addr <= 0 THEN "i2c.addr must be 1..127"
    ELSE IF c.i2c.sample_interval_ms <= 0 THEN "i2c.sample_interval_ms must be > 0"
    ELSE IF c.wifi.scan_interval_ms <= 0 THEN "wifi.scan_interval_ms must be > 0"
    ELSE IF U64Leq(c.pcap.max_file_size_mb, U64FromInt(0))
        THEN "pcap.max_file_size_mb must be > 0"
    ELSE IF c.pcap.max_files <= 0 THEN "pcap.max_files must be > 0"
    ELSE IF c.correlator.window_ms <= 0 THEN "correlator.window_ms must be > 0"
    ELSE IF c.logging.max_files <= 0 THEN "logging.max_files must be > 0"
    ELSE IF c.metrics.ping_interval_ms <= 0 THEN "metrics.ping_interval_ms must be > 0"
    ELSE IF c.metrics.iperf3_duration <= 0 THEN "metrics.iperf3_duration must be > 0"
    ELSE ""

\* Config::validate: the message of the first check that throws, "" when none does.
validate(c) ==
    IF c.i2c.bus_id < 0 THEN "i2c.bus_id must be >= 0"
    ELSE IF c.i2c.addr <= 0 \/ c.i2c.addr > 127 THEN "i2c.addr must be 1..127"
    ELSE IF c.i2c.sample_interval_ms <= 0 THEN "i2c.sample_interval_ms must be > 0"
    ELSE IF c.wifi.scan_interval_ms <= 0 THEN "wifi.scan_interval_ms must be > 0"
    ELSE IF U64Leq(c.pcap.max_file_size_mb, U64FromInt(0))
        THEN "pcap.max_file_size_mb must be > 0"
    ELSE IF c.pcap.max_files <= 0 THEN "pcap.max_files must be > 0"
    ELSE IF c.correlator.window_ms <= 0 THEN "correlator.window_ms must be > 0"
    ELSE IF U64Leq(c.logging.max_size_mb, U64FromInt(0))
        THEN "logging.max_size_mb must be > 0"
    ELSE IF c.logging.max_files <= 0 THEN "logging.max_files must be > 0"
    ELSE IF c.metrics.ping_interval_ms <= 0 THEN "metrics.ping_interval_ms must be > 0"
    ELSE IF c.metrics.iperf3_duration <= 0 THEN "metrics.iperf3_duration must be > 0"
    ELSE ""

\* The members of Config in the order of to_json: section, member, C++ type,
\* key written by to_json.
FieldTable ==
    << << "i2c", "mock_mode", "bool", "mock_mode" >>,
       << "i2c", "bus_id", "int", "bus_id" >>,
       << "i2c", "addr", "int", "addr" >>,
       << "i2c", "sample_interval_ms", "int", "sample_interval_ms" >>,
       << "wifi", "iface_ap", "string", "iface_ap" >>,
       << "wifi", "iface_scan", "string", "iface_scan" >>,
       << "wifi", "scan_interval_ms", "int", "scan_interval_ms" >>,
       << "wifi", "monitor_mode", "bool", "monitor_mode" >>,
       << "pcap", "bpf", "string", "bpf" >>,
       << "pcap", "output_dir", "string", "output_dir" >>,
       << "pcap", "max_file_size_mb", "size_t", "max_file_size_mb" >>,
       << "pcap", "max_files", "int", "max_files" >>,
       << "correlator", "sensor_threshold", "int", "sensor_threshold" >>,
       << "correlator", "window_ms", "int", "window_ms" >>,
       << "correlator", "findings_dir", "string", "findings_dir" >>,
       << "logging", "level", "string", "level" >>,
       << "logging", "file", "string", "file" >>,
       << "logging", "console", "bool", "console" >>,
       << "logging", "max_size_mb", "size_t", "max_size_mb" >>,
       << "logging", "max_files", "int", "max_files" >>,
       << "metrics", "ping_targets", "array", "ping_targets" >>,
       << "metrics", "iperf_server", "string", "iperf_server" >>,
       << "metrics", "ping_interval_ms", "int", "ping_interval_ms" >>,
       << "metrics", "iperf3_duration", "int", "iperf_duration" >> >>

Fields == { FieldTable[i] : i \in DOMAIN FieldTable }

Sections == { f[1] : f \in Fields }

FieldsOf(section) == { f \in Fields : f[1] = section }

\* Values every member of a C++ type is sampled at.
TypeSamples(type) ==
    CASE type = "bool" -> { TRUE, FALSE }
      [] type = "int" -> { -1, 0, 128 }
      [] type = "size_t" -> { U64FromInt(0), U64Max }
      [] type = "string" -> { << "say ", "\"", "hi", "\\" >>, << "<FF>" >> }
      [] type = "array" -> { << >>, << << "10.0.0.1" >> >> }

\* Further values for the member whose range has an upper end.
MemberSamples(f) ==
    TypeSamples(f[3]) \cup
    CASE f[2] = "addr" -> { 1, 127 }
      [] OTHER -> { }

\* c with one more member set to a sampled value.
ConfigSamplesFrom(c) ==
    UNION { { [c EXCEPT ![f[1]][f[2]] = v] : v \in MemberSamples(f) } : f \in Fields }

\* Configurations in which at most n members differ from their initializers.
RECURSIVE ConfigsWith(_)
ConfigsWith(n) ==
    IF n = 0 THEN { get_defaults }
    ELSE LET fewer == ConfigsWith(n - 1)
         IN  fewer \cup UNION { ConfigSamplesFrom(c) : c \in fewer }


(***************************************************************************)
(* nlohmann::json as Config uses it.  A JSON value is a record tagged with *)
(* its value_t: number_integer holds an int64_t and number_unsigned a      *)
(* uint64_t, both as 64-bit patterns in limbs; an object maps keys to      *)
(* values.  A JSON text is the tree of its tokens: a number is a sign and  *)
(* a decimal magnitude, a string is a sequence of units, each a character  *)
(* written plainly or behind a backslash.                                  *)
(***************************************************************************)

\* int to int64_t: sign extension.
I64FromInt(n) ==
    IF n >= 0 THEN U64FromInt(n)
    ELSE << LimbBase - 1, LimbBase - 1, (n \div LimbBase) + LimbBase, n % LimbBase >>

\* static_cast<int> of a 64-bit pattern: its low 32 bits, as a signed value.
IntFrom64(a) ==
    IF a[3] >= LimbBase \div 2 THEN (a[3] - LimbBase) * LimbBase + a[4]
    ELSE a[3] * LimbBase + a[4]

JsonString(s) == [t |-> "string", v |-> s]

\* The json built from one member by the initializer lists of to_json.
member_to_json(type, v) ==
    CASE type = "bool" -> [t |-> "boolean", v |-> v]
      [] type = "int" -> [t |-> "number_integer", v |-> I64FromInt(v)]
      [] type = "size_t" -> [t |-> "number_unsigned", v |-> v]
      [] type = "string" -> JsonString(v)
      [] type = "array" -> [t |-> "array", v |-> [i \in DOMAIN v |-> JsonString(v[i])]]

\* The member that to_json writes under a key of a section.
FieldOfKey(section, key) == CHOOSE f \in FieldsOf(section) : f[4] = key

FieldOfMember(section, member) == CHOOSE f \in FieldsOf(section) : f[2] = member

\* Config::to_json
to_json(c) ==
    [t |-> "object",
     v |-> [section \in Sections |->
               [t |-> "object",
                v |-> [key \in { f[4] : f \in FieldsOf(section) } |->
                          LET f == FieldOfKey(section, key)
                          IN  member_to_json(f[3], c[f[1]][f[2]])]]]]

\* basic_json::dump throws type_error.316 on a string that is not UTF-8.
RECURSIVE dump_throws(_)
dump_throws(j) ==
    CASE j.t = "string" -> \E i \in DOMAIN j.v : j.v[i] \in InvalidUtf8
      [] j.t = "array" -> \E i \in DOMAIN j.v : dump_throws(j.v[i])
      [] j.t = "object" -> \E key \in DOMAIN j.v : dump_throws(j.v[key])
      [] OTHER -> FALSE

\* basic_json::dump
RECURSIVE dump(_)
dump(j) ==
    CASE j.t = "null" -> [form |-> "literal", word |-> "null"]
      [] j.t = "boolean" -> [form |-> "literal", word |-> IF j.v THEN "true" ELSE "false"]
      [] j.t = "number_unsigned" -> [form |-> "number", negative |-> FALSE, magnitude |-> j.v]
      [] j.t = "number_integer" ->
             IF I64Negative(j.v)
             THEN [form |-> "number", negative |-> TRUE,
                   magnitude |-> U64Sub(U64FromInt(0), j.v)]
             ELSE [form |-> "number", negative |-> FALSE, magnitude |-> j.v]
      [] j.t = "string" ->
             [form |-> "string",
              units |-> [i \in DOMAIN j.v |->
                            [escaped |-> j.v[i] \in EscapedChars, char |-> j.v[i]]]]
      [] j.t = "array" -> [form |-> "array", items |-> [i \in DOMAIN j.v |-> dump(j.v[i])]]
      [] j.t = "object" ->
             [form |-> "object", members |-> [key \in DOMAIN j.v |-> dump(j.v[key])]]

\* json::parse throws parse_error on this text.
RECURSIVE parse_throws(_)
parse_throws(text) ==
    CASE text.form = "garbage" -> TRUE
      [] text.form = "string" ->
             \E i \in DOMAIN text.units :
                 \/ text.units[i].char \in InvalidUtf8
                 \/ text.units[i].char \in EscapedChars /\ ~text.units[i].escaped
      [] text.form = "array" -> \E i \in DOMAIN text.items : parse_throws(text.items[i])
      [] text.form = "object" -> \E key \in DOMAIN text.members : parse_throws(text.members[key])
      [] OTHER -> FALSE

\* json::parse: a number without a minus sign is number_unsigned, one with a
\* minus sign is number_integer (magnitudes up to 2^63).
RECURSIVE parse(_)
parse(text) ==
    CASE text.form = "literal" ->
             IF text.word = "null" THEN [t |-> "null"]
             ELSE [t |-> "boolean", v |-> text.word = "true"]
      [] text.form = "number" ->
             IF text.negative
             THEN [t |-> "number_integer", v |-> U64Sub(U64FromInt(0), text.magnitude)]
             ELSE [t |-> "number_unsigned", v |-> text.magnitude]
      [] text.form = "string" -> JsonString([i \in DOMAIN text.units |-> text.units[i].char])
      [] text.form = "array" ->
             [t |-> "array", v |-> [i \in DOMAIN text.items |-> parse(text.items[i])]]
      [] text.form = "object" ->
             [t |-> "object", v |-> [key \in DOMAIN text.members |-> parse(text.members[key])]]

Thrown(what) == [threw |-> TRUE, what |-> what]

Got(v) == [threw |-> FALSE, v |-> v]

\* basic_json::get<T> for the member types of Config: a conversion between the
\* number types keeps the low bits, any other mismatch throws type_error.
get(type, j) ==
    CASE type = "bool" ->
             IF j.t = "boolean" THEN Got(j.v) ELSE Thrown("type_error")
      [] type = "int" ->
             IF j.t \in { "number_integer", "number_unsigned" } THEN Got(IntFrom64(j.v))
             ELSE IF j.t = "boolean" THEN Got(IF j.v THEN 1 ELSE 0)
             ELSE Thrown("type_error")
      [] type = "size_t" ->
             IF j.t \in { "number_integer", "number_unsigned" } THEN Got(j.v)
             ELSE Thrown("type_error")
      [] type = "string" ->
             IF j.t = "string" THEN Got(j.v) ELSE Thrown("type_error")
      [] type = "array" ->
             IF j.t = "array" /\ \A i \in DOMAIN j.v : j.v[i].t = "string"
             THEN Got([i \in DOMAIN j.v |-> j.v[i].v])
             ELSE Thrown("type_error")

\* j.contains(section) && j[section].is_object() && j[section].contains(key)
contains(j, section, key) ==
    /\ j.t = "object"
    /\ section \in DOMAIN j.v
    /\ j.v[section].t = "object"
    /\ key \in DOMAIN j.v[section].v

\* A variant of KeyRead that knows the member's own name only.
KeyRead_own_name(j, f) == f[2]

\* The key from_json_object reads a member from: the member's name, else the
\* key to_json writes ("iperf3_duration", else "iperf_duration").
KeyRead(j, f) == IF contains(j, f[1], f[2]) THEN f[2] ELSE f[4]

Present(j, f) == contains(j, f[1], KeyRead(j, f))

\* A variant of load_member that clears a string member whose key is absent.
load_member_blank(cfg, j, f) ==
    IF Present(j, f) THEN get(f[3], j.v[f[1]].v[KeyRead(j, f)])
    ELSE IF f[3] = "string" THEN Got(<< >>)
    ELSE Got(cfg[f[1]][f[2]])

\* One line of from_json_object: if (js.contains(key)) member = js[key].get<T>();
load_member(cfg, j, f) ==
    IF Present(j, f) THEN get(f[3], j.v[f[1]].v[KeyRead(j, f)])
    ELSE Got(cfg[f[1]][f[2]])

\* Config::from_json_object on cfg: the configuration it leaves, or the
\* exception of the first get<T>() that throws.
from_json_object(cfg, j) ==
    IF \E f \in Fields : load_member(cfg, j, f).threw THEN Thrown("type_error")
    ELSE Got([section \in Sections |->
                 [member \in { f[2] : f \in FieldsOf(section) } |->
                     load_member(cfg, j, FieldOfMember(section, member)).v]])

\* Config::from_json
from_json(json_str) ==
    IF json_str.form = "empty" THEN Thrown("Empty JSON string")
    ELSE IF parse_throws(json_str) THEN Thrown("Invalid JSON: ")
    ELSE LET loaded == from_json_object(get_defaults, parse(json_str))
         IN  IF loaded.threw THEN loaded
             ELSE IF validate(loaded.v) # "" THEN Thrown(validate(loaded.v))
             ELSE loaded

Number(negative, magnitude) ==
    [form |-> "number", negative |-> negative, magnitude |-> magnitude]

Literal(word) == [form |-> "literal", word |-> word]

PlainString(s) == [form |-> "string", units |-> << [escaped |-> FALSE, char |-> s] >>]

\* JSON texts every key of a member of a C++ type is sampled at.
TypeTexts(type) ==
    CASE type = "bool" -> { Literal("true"), Literal("false") }
      [] type = "int" ->
             { Number(TRUE, U64FromInt(1)), Number(FALSE, U64FromInt(0)),
               Number(FALSE, U64FromInt(128)) }
      [] type = "size_t" -> { Number(FALSE, U64FromInt(0)), Number(TRUE, U64FromInt(1)) }
      [] type = "string" ->
             { PlainString("lo"),
               [form |-> "string",
                units |-> << [escaped |-> FALSE, char |-> "type "],
                             [escaped |-> TRUE, char |-> "\"" ] >>] }
      [] type = "array" ->
             { [form |-> "array", items |-> << >>],
               [form |-> "array", items |-> << PlainString("10.0.0.1") >>] }

\* Further texts for some keys: a number beyond the range of int, and
\* texts that convert to none of the member types.
MemberTexts(key) ==
    TypeTexts(key[3]) \cup
    CASE key[2] = "scan_interval_ms" -> { Number(FALSE, << 0, 1, 0, 128 >>) }
      [] key[2] = "bus_id" -> { Literal("null"), Literal("true") }
      [] key[2] = "max_size_mb" -> { Literal("true") }
      [] key[2] = "level" -> { Number(FALSE, U64FromInt(1)) }
      [] key[2] = "ping_targets" ->
             { [form |-> "array", items |-> << Number(FALSE, U64FromInt(1)) >>] }
      [] OTHER -> { }

\* Section, key and member type of the keys a sampled document may hold: the
\* member names, the keys written by to_json, and a key that names no member.
DocKeys ==
    { << f[1], f[2], f[3] >> : f \in Fields } \cup { << f[1], f[4], f[3] >> : f \in Fields }
        \cup { << "i2c", "unknown", "int" >> }

\* The object text with the given members: assigned maps << section, key >> to a text.
DocText(assigned) ==
    [form |-> "object",
     members |-> [section \in { k[1] : k \in DOMAIN assigned } |->
                     [form |-> "object",
                      members |-> [key \in { k[2] : k \in { d \in DOMAIN assigned :
                                                              d[1] = section } } |->
                                      assigned[<< section, key >>]]]]]

\* The assignments that give one more key a sampled text.
AssignedFrom(keys, a) ==
    UNION { { [k \in DOMAIN a \cup { << key[1], key[2] >> } |->
                 IF k = << key[1], key[2] >> THEN text ELSE a[k]]
              : text \in MemberTexts(key) }
            : key \in keys }

\* Assignments of sampled texts to at most n of the keys.
RECURSIVE AssignedWith(_, _)
AssignedWith(keys, n) ==
    IF n = 0 THEN { << >> }
    ELSE LET fewer == AssignedWith(keys, n - 1)
         IN  fewer \cup UNION { AssignedFrom(keys, a) : a \in fewer }

\* Texts without a member in a section that is an object: the empty string,
\* a text that is not JSON, an array, the empty object, and an object whose
\* section is a number.
OddTexts ==
    { [form |-> "empty"], [form |-> "garbage"], [form |-> "array", items |-> << >>],
      [form |-> "object", members |-> << >>],
      [form |-> "object",
       members |-> [section \in { "i2c" } |-> Number(FALSE, U64FromInt(5))]] }

NoCallYet == config_call = NoConfigCall /\ ~startup.ended

\* A caller validates a configuration it has filled in.
call_validate ==
    /\ NoCallYet
    /\ \E few \in ConfigsWith(MaxKeys - 1) : \E c \in ConfigSamplesFrom(few) :
           config_call' = [op |-> "validate", c |-> c, what |-> validate(c)]
    /\ UNCHANGED << engine_vars, shutdown_vars, io_vars, time_vars, sensor_vars, startup >>

\* A caller serialises a valid configuration and loads the text again:
\* Config::from_json(config.to_json().dump()).
call_round_trip ==
    /\ NoCallYet
    /\ \E few \in ConfigsWith(MaxKeys - 1) :
       \E c \in { s \in ConfigSamplesFrom(few) : validate(s) = "" } :
           config_call' =
               [op |-> "round_trip", c |-> c,
                loaded |-> IF dump_throws(to_json(c)) THEN Thrown("type_error")
                           ELSE from_json(dump(to_json(c)))]
    /\ UNCHANGED << engine_vars, shutdown_vars, io_vars, time_vars, sensor_vars, startup >>

\* A caller loads a configuration from a JSON string.
call_from_json ==
    /\ NoCallYet
    /\ \E few \in AssignedWith(DocKeys, MaxKeys - 1) :
       \E json_str \in { DocText(a) : a \in AssignedFrom(DocKeys, few) } \cup OddTexts :
           config_call' =
               [op |-> "from_json", json_str |-> json_str, loaded |-> from_json(json_str)]
    /\ UNCHANGED << engine_vars, shutdown_vars, io_vars, time_vars, sensor_vars, startup >>

\* The keys of the correlator's threshold and window, and of the sensor's mode.
StartupKeys ==
    { k \in DocKeys : \/ k[1] = "correlator" /\ k[2] \in { "sensor_threshold", "window_ms" }
                      \/ k[1] = "i2c" /\ k[2] = "mock_mode" }

\* The file at config_path: absent, or holding a text.
FileSamples ==
    { [form |-> "missing"] } \cup OddTexts
        \cup { DocText(a) : a \in AssignedWith(StartupKeys, MaxKeys) }

\* Config::load
load(file) ==
    IF file.form = "missing" THEN Thrown("Config file not found: ")
    ELSE from_json(file)

\* A start-up that also gives up when the wifi scanner cannot initialise.
startup_path_strict(load_threw, sensor_init, wifi_init, pcap_init, metrics_init, correlator_init, test_mode) ==
    IF load_threw THEN << "return 1", "Failed to load configuration: " >>
    ELSE IF ~sensor_init THEN << "return 1", "Failed to initialize sensor: " >>
    ELSE IF ~wifi_init THEN << "return 1", "Failed to initialize WiFi scan: " >>
    ELSE IF ~correlator_init THEN << "return 1", "Failed to initialize correlator: " >>
    ELSE IF test_mode THEN << "return 0", "" >>
    ELSE << "running", "" >>

\* The path main takes from configuration loading to the thread start: how
\* it ends and the error it reports.  A failed init() of the wifi scanner, the
\* packet sniffer or the metrics component is logged as a warning only.
startup_path(load_threw, sensor_init, wifi_init, pcap_init, metrics_init, correlator_init, test_mode) ==
    IF load_threw THEN << "return 1", "Failed to load configuration: " >>
    ELSE IF ~sensor_init THEN << "return 1", "Failed to initialize sensor: " >>
    ELSE IF ~correlator_init THEN << "return 1", "Failed to initialize correlator: " >>
    ELSE IF test_mode THEN << "return 0", "" >>
    ELSE << "running", "" >>

\* main up to the start of the worker threads.  mock_mode is false under
\* --real, test_mode is one of the --test-* options, device_opens is whether
\* open and ioctl on the I2C device succeed, and the three other flags are
\* what init() of the wifi scanner, the packet sniffer and the metrics
\* component return.  The Correlator is constructed from config_path, which
\* its constructor does not read, and its init() returns true.
main_startup ==
    /\ NoCallYet
    /\ \E file \in FileSamples, mock_mode \in BOOLEAN, test_mode \in BOOLEAN,
          device_opens \in BOOLEAN, wifi_init \in BOOLEAN, pcap_init \in BOOLEAN,
          metrics_init \in BOOLEAN :
           LET loaded == load(file)
               config == IF loaded.threw THEN get_defaults
                         ELSE IF mock_mode THEN loaded.v
                         ELSE [loaded.v EXCEPT !.i2c.mock_mode = FALSE]
               sensor_init == config.i2c.mock_mode \/ device_opens
               correlator_init == TRUE
               path == startup_path(loaded.threw, sensor_init, wifi_init, pcap_init,
                                    metrics_init, correlator_init, test_mode)
               reached(component) == ~loaded.threw /\ (component = "sensor" \/ sensor_init)
           IN  startup' =
                   [ended |-> TRUE, file |-> file, config |-> config,
                    outcome |-> path[1], reported |-> path[2],
                    sensor_init |-> reached("sensor") /\ sensor_init,
                    wifi_init |-> reached("wifi") /\ wifi_init,
                    pcap_init |-> reached("pcap") /\ pcap_init,
                    metrics_init |-> reached("metrics") /\ metrics_init,
                    correlator_init |-> reached("correlator") /\ correlator_init,
                    sensor_threshold_ |-> DefaultSensorThreshold,
                    correlation_window_ms_ |-> DefaultCorrelationWindowMs,
                    threads_started |-> path[1] = "running"]
    /\ UNCHANGED << engine_vars, shutdown_vars, io_vars, time_vars, sensor_vars, config_call >>

NextConfig ==
    \/ call_validate
    \/ call_round_trip
    \/ call_from_json
    \/ main_startup

SpecConfig == Init /\ [][NextConfig]_vars

\* The file gives the correlator a negative sensor threshold or a correlation
\* window that is not positive.
InvalidThresholdOrWindow(file) ==
    /\ file.form = "object"
    /\ "correlator" \in DOMAIN file.members
    /\ file.members["correlator"].form = "object"
    /\ LET section == file.members["correlator"].members
           negative(key) ==
               /\ key \in DOMAIN section
               /\ section[key].form = "number"
               /\ section[key].negative
               /\ section[key].magnitude # U64FromInt(0)
           zero(key) ==
               /\ key \in DOMAIN section
               /\ section[key].form = "number"
               /\ section[key].magnitude = U64FromInt(0)
       IN  negative("sensor_threshold") \/ negative("window_ms") \/ zero("window_ms")

\* C21: when the configuration file holds an invalid sensor threshold or
\* correlation window, main ends with return 1, has reported an error and has
\* started no worker thread.
C21_InvalidThresholdIsFatal ==
    startup.ended /\ InvalidThresholdOrWindow(startup.file) =>
        /\ startup.outcome = "return 1"
        /\ startup.reported # ""
        /\ ~startup.threads_started

\* One of the eleven conditions on the members of c, over the integers.
OutOfRange(c) ==
    \/ c.i2c.bus_id < 0
    \/ ~(c.i2c.addr \in 1..127)
    \/ c.i2c.sample_interval_ms <= 0
    \/ c.wifi.scan_interval_ms <= 0
    \/ c.pcap.max_file_size_mb = U64FromInt(0)
    \/ c.pcap.max_files <= 0
    \/ c.correlator.window_ms <= 0
    \/ c.logging.max_size_mb = U64FromInt(0)
    \/ c.logging.max_files <= 0
    \/ c.metrics.ping_interval_ms <= 0
    \/ c.metrics.iperf3_duration <= 0

\* C22: validate() throws whenever one of the eleven range conditions holds of
\* the configuration, and does not throw for the default configuration.
C22_ValidateThrowsOutOfRange ==
    config_call.op = "validate" =>
        /\ OutOfRange(config_call.c) => config_call.what # ""
        /\ config_call.c = get_defaults => config_call.what = ""

C22_Witness ==
    /\ config_call.op = "validate"
    /\ config_call.c.i2c.addr = 128
    /\ config_call.c.logging.max_size_mb = U64FromInt(0)
    /\ config_call.what = "i2c.addr must be 1..127"

\* C23: for every valid configuration c, from_json(c.to_json().dump()) returns
\* a configuration equal to c in every member.
C23_RoundTrip ==
    config_call.op = "round_trip" =>
        /\ ~config_call.loaded.threw
        /\ config_call.loaded.v = config_call.c

\* Every piece of every string member and ping target of c is UTF-8.
StringsAreUtf8(c) ==
    /\ \A f \in { g \in Fields : g[3] = "string" } :
           \A i \in DOMAIN c[f[1]][f[2]] : c[f[1]][f[2]][i] \notin InvalidUtf8
    /\ \A i \in DOMAIN c.metrics.ping_targets :
           \A n \in DOMAIN c.metrics.ping_targets[i] :
               c.metrics.ping_targets[i][n] \notin InvalidUtf8

\* C23, amended: for every valid configuration c whose strings are UTF-8,
\* from_json(c.to_json().dump()) returns a configuration equal to c in every member.
C23_RoundTripUtf8 ==
    config_call.op = "round_trip" /\ StringsAreUtf8(config_call.c) =>
        /\ ~config_call.loaded.threw
        /\ config_call.loaded.v = config_call.c

C23_Witness ==
    /\ config_call.op = "round_trip"
    /\ config_call.c.metrics.iperf3_duration = 128
    /\ config_call.c.correlator.sensor_threshold = -1
    /\ ~config_call.loaded.threw
    /\ config_call.loaded.v.metrics.iperf3_duration = 128

\* The keys the text holds in a section that is an object.
KeysIn(text, section) ==
    IF /\ text.form = "object"
       /\ section \in DOMAIN text.members
       /\ text.members[section].form = "object"
    THEN DOMAIN text.members[section].members
    ELSE { }

\* C24: a configuration loaded from a JSON text has, in every member whose
\* key the text does not hold, the value of get_defaults(), and in every
\* other member the value converted from the text.
C24_AbsentKeepDefault ==
    config_call.op = "from_json" /\ ~config_call.loaded.threw =>
        \A f \in Fields :
            LET keys == KeysIn(config_call.json_str, f[1])
                member == config_call.loaded.v[f[1]][f[2]]
                held(key) ==
                    get(f[3], parse(config_call.json_str.members[f[1]].members[key])).v
            IN  IF f[2] \in keys THEN member = held(f[2])
                ELSE IF f[4] \in keys THEN member = held(f[4])
                ELSE member = get_defaults[f[1]][f[2]]

C24_Witness ==
    /\ config_call.op = "from_json"
    /\ ~config_call.loaded.threw
    /\ KeysIn(config_call.json_str, "wifi") = { "scan_interval_ms" }
    /\ KeysIn(config_call.json_str, "metrics") = { "iperf_duration" }
    /\ config_call.loaded.v.wifi.scan_interval_ms = 128
    /\ config_call.loaded.v.wifi.iface_ap = << "wlan1" >>
    /\ config_call.loaded.v.metrics.iperf3_duration = 128


(***************************************************************************)
(* The findings ledger across get_findings calls.                          *)
(***************************************************************************)
IsPrefix(s, t) == Len(s) <= Len(t) /\ SubSeq(t, 1, Len(s)) = s

\* C31: the result of a get_findings call is a prefix of the result of every
\* later get_findings call, whatever push_*, process(), get_stats and
\* set_finding_callback calls happen in between.
C31_LedgerAppendOnly ==
    [][snapshot.called /\ snapshot'.called
           => IsPrefix(snapshot.findings, snapshot'.findings)]_vars

\* get_findings has returned, then samples that cross the threshold were
\* pushed and process() ran.
C31_Witness ==
    /\ snapshot.called
    /\ after_process
    /\ FindingsFrom(sensor_buffer_, 1) # << >>


\* C32: the Correlator that main constructs with the path of the configuration
\* file has that file's correlator.sensor_threshold and correlator.window_ms as
\* its sensor_threshold_ and correlation_window_ms_.
C32_CorrelatorUsesFile ==
    startup.ended /\ startup.outcome # "return 1" =>
        /\ startup.sensor_threshold_ = startup.config.correlator.sensor_threshold
        /\ startup.correlation_window_ms_ = startup.config.correlator.window_ms

\* C36: stop() never calls pcap_breakloop on a handle that the capture thread
\* has passed to pcap_close (or has reset after closing it).
C36_NoBreakloopAfterClose ==
    main_pc = "stop_breakloop" => pcap_handle_ = "open"

\* stop() has been called.
StopCalled == main_pc \notin { "wait", "stop" }

\* C37: is_running() is false before start() and when start() returned false,
\* true while the capture loop executes and stop() has not been called, and
\* false once the capture loop has exited, for whatever reason.
C37_RunningReflectsCaptureThread ==
    /\ worker_pc["pcap"] = "start" => ~running_
    /\ worker_pc["pcap"] = "done" /\ capture_pc = "none" => ~running_
    /\ capture_pc \in { "loop", "next" } /\ ~StopCalled => running_
    /\ capture_pc = "exited" => ~running_


\* C38: the five monitoring threads are started only if init() of the sensor
\* and of the correlator returned true, otherwise main returns 1 with no
\* thread created; a failed init() of the wifi scanner, the packet sniffer or
\* the metrics component does not keep them from starting.
C38_ThreadsNeedSensorAndCorrelator ==
    startup.ended =>
        /\ startup.threads_started => startup.sensor_init /\ startup.correlator_init
        /\ (startup.outcome # "return 1" /\ ~startup.threads_started)
               => startup.sensor_init /\ startup.correlator_init
        /\ (startup.sensor_init /\ startup.correlator_init /\ startup.outcome # "return 0")
               => startup.threads_started

C38_Witness ==
    /\ startup.ended
    /\ startup.threads_started
    /\ ~startup.wifi_init /\ ~startup.pcap_init /\ ~startup.metrics_init

(***************************************************************************)
(* ArduinoI2C in real mode, and the sensor thread of main.  A SensorFrame  *)
(* is the sequence of its bytes as they lie in memory (packed, little      *)
(* endian): ts_ms, ir_raw, ultra_mm, status, reserved, crc16.              *)
(***************************************************************************)
CRC16_POLY == 4129

CRC16_INIT == 65535

\* sizeof(SensorFrame) and sizeof(uint16_t)
FrameSize == 12

CrcSize == 2

\* a ^ b on unsigned values
BitXor[a \in Nat, b \in Nat] ==
    IF a = 0 THEN b
    ELSE IF b = 0 THEN a
    ELSE (((a % 2) + (b % 2)) % 2) + 2 * BitXor[a \div 2, b \div 2]

\* The inner loop of compute_crc16: `bits` times, shift the uint16_t crc left
\* and xor the polynomial in when bit 15 was set.
crc_shift[crc \in 0..(LimbBase - 1), bits \in Nat] ==
    IF bits = 0 THEN crc
    ELSE crc_shift[IF crc >= LimbBase \div 2
                   THEN BitXor[(crc * 2) % LimbBase, CRC16_POLY]
                   ELSE (crc * 2) % LimbBase,
                   bits - 1]

\* The outer loop of compute_crc16 over the first n bytes of data.
RECURSIVE crc_over(_, _)
crc_over(data, n) ==
    IF n = 0 THEN CRC16_INIT
    ELSE crc_shift[BitXor[crc_over(data, n - 1), data[n] * 256], 8]

\* ArduinoI2C::compute_crc16
compute_crc16(data) == crc_over(data, Len(data))

\* The uint16_t stored in two bytes, low byte first.
U16At(bytes, i) == bytes[i] + (256 * bytes[i + 1])

\* A validate_crc16 that accepts every frame.
validate_crc16_any(frame) == TRUE

\* ArduinoI2C::validate_crc16
validate_crc16(frame) ==
    compute_crc16(SubSeq(frame, 1, FrameSize - CrcSize)) = U16At(frame, FrameSize - CrcSize + 1)

\* The most iterations of the sensor thread's loop that are followed.
MaxFrames == 2

\* The bytes of a uint16_t, low byte first.
U16Bytes(v) == << v % 256, v \div 256 >>

\* The first ten bytes of a frame: ts_ms (two 16-bit limbs, low limb first),
\* ir_raw (int16_t in two's complement), ultra_mm, status, reserved = 0.
FrameBody(ts, ir, ultra, status) ==
    U16Bytes(ts[1]) \o U16Bytes(ts[2]) \o U16Bytes((ir + LimbBase) % LimbBase)
        \o U16Bytes(ultra) \o << status, 0 >>

\* The last lines of generate_mock_frame: crc16 is computed over the bytes
\* before it and stored after them.
with_crc16(body) == body \o U16Bytes(compute_crc16(body))

\* The frames generate_mock_frame is followed for: ir_raw at both clamps and
\* between, ultra_mm at both ends of the sweep, motion bit set or not.
MockFrames ==
    { with_crc16(FrameBody(ts, ir, ultra, status)) :
        ts \in { << 100, 0 >>, << LimbBase - 1, LimbBase - 1 >> },
        ir \in { -512, 100, 511 }, ultra \in { 50, 4000 }, status \in { 0, STATUS_MOTION } }

\* Two frames as the Arduino sends them.
FrameA == with_crc16(FrameBody(<< 1000, 0 >>, 300, 1200, STATUS_MOTION))

FrameB == with_crc16(FrameBody(<< 1100, 0 >>, -5, 50, 0))

\* A frame one byte of which changed on the bus.
Corrupt(frame) == [frame EXCEPT ![6] = (@ + 1) % 256]

\* The bytes the device has for the reader: whole frames, a frame damaged on
\* the bus followed by a good or a damaged one, a stream joined in the middle
\* of a frame, a stream that ends early, and nothing at all.
WireSamples ==
    { FrameA \o FrameB,
      Corrupt(FrameA) \o FrameB,
      Corrupt(FrameA) \o Corrupt(FrameB),
      SubSeq(FrameA, 6, FrameSize) \o FrameB \o FrameA,
      FrameA \o SubSeq(FrameB, 1, 4),
      << >> }

\* What the local `frame` of sensor_thread_func can hold before the first
\* read_frame: it is not initialised.
UninitFrames == { [i \in 1..FrameSize |-> 0], FrameA }

\* errno values of a failed read()
ReadErrors == { "EINTR", "EAGAIN", "EIO", "ETIMEDOUT", "EBADF" }

Min(a, b) == IF a <= b THEN a ELSE b

\* What one read(fd_, buf + got, want - got) can return when `wire` is what
\* the device still has: -1 with an errno, 0, or a count of bytes up to the
\* room asked for.
ReadResults(wire, room) ==
    [n : { -1 }, errno : ReadErrors]
        \cup [n : { 0 } \cup ({ 1, 5, Min(room, Len(wire)) } \cap (1..Min(room, Len(wire)))),
              errno : { "none" }]

\* buf after read() stored the first n bytes of wire at buf + got
Stored(buf, got, wire, n) ==
    [i \in 1..FrameSize |-> IF i > got /\ i <= got + n THEN wire[i - got] ELSE buf[i]]

Drop(wire, n) == SubSeq(wire, n + 1, Len(wire))

\* sensor_thread_func is entered: the ArduinoI2C was initialised in mock mode
\* or with an open device (main returns before if init() failed).
sensor_thread_start ==
    /\ sensor_loop = NoLoop
    /\ \E mock_mode \in BOOLEAN, frame \in UninitFrames, wire \in WireSamples :
           /\ sensor_loop' = [pc |-> "loop", mock_mode_ |-> mock_mode,
                              fd_ |-> IF mock_mode THEN -1 ELSE 3,
                              frame |-> frame, ret |-> FALSE, last_error_ |-> "",
                              pushed |-> << >>, iterations |-> 0]
           /\ i2c_wire' = IF mock_mode THEN << >> ELSE wire
    /\ UNCHANGED << engine_vars, shutdown_vars, time_vars, sensor_vars, loader_vars,
                    real_read, pcap_files >>

\* read_frame returns ret to the sensor thread.
read_frame_returns(ret, frame, error) ==
    /\ sensor_loop' = [sensor_loop EXCEPT !.pc = "returned", !.ret = ret, !.frame = frame,
                                          !.last_error_ = IF ret THEN @ ELSE error]
    /\ real_read' = NoRead

\* The loop of sensor_thread_func calls sensor->read_frame(frame): in mock
\* mode generate_mock_frame fills the frame and true is returned, in real
\* mode read_frame_real starts.
sensor_thread_read ==
    /\ sensor_loop # NoLoop
    /\ sensor_loop.pc = "loop"
    /\ sensor_loop.iterations < MaxFrames
    /\ IF sensor_loop.mock_mode_
       THEN \E frame \in MockFrames : read_frame_returns(TRUE, frame, "")
       ELSE IF sensor_loop.fd_ < 0
       THEN read_frame_returns(FALSE, sensor_loop.frame, "I2C device not initialized")
       ELSE /\ sensor_loop' = [sensor_loop EXCEPT !.pc = "reading"]
            /\ real_read' = [pc |-> "loop", got |-> 0, attempts |-> 0]
    /\ UNCHANGED << engine_vars, shutdown_vars, time_vars, sensor_vars, loader_vars,
                    i2c_wire, pcap_files >>

\* read_frame_real, first loop: got < want, read() is called.
read_frame_real_call ==
    /\ real_read.pc = "loop"
    /\ real_read.got < FrameSize
    /\ real_read' = [real_read EXCEPT !.pc = "read"]
    /\ UNCHANGED << engine_vars, shutdown_vars, time_vars, sensor_vars, loader_vars,
                    i2c_wire, sensor_loop, pcap_files >>

\* read_frame_real, first loop: read() has returned r.
read_frame_real_got(r) ==
    IF r.n < 0
    THEN IF r.errno = "EINTR"
         THEN /\ real_read' = [real_read EXCEPT !.pc = "loop"]
              /\ UNCHANGED << i2c_wire, sensor_loop >>
         ELSE IF r.errno \in { "EAGAIN", "EIO", "ETIMEDOUT" } /\ real_read.attempts < 3
         THEN /\ real_read' = [real_read EXCEPT !.pc = "loop", !.attempts = @ + 1]
              /\ UNCHANGED << i2c_wire, sensor_loop >>
         ELSE /\ read_frame_returns(FALSE, sensor_loop.frame, "I2C read failed: ")
              /\ UNCHANGED i2c_wire
    ELSE IF r.n = 0
    THEN IF real_read.attempts < 2
         THEN /\ real_read' = [real_read EXCEPT !.pc = "loop", !.attempts = @ + 1]
              /\ UNCHANGED << i2c_wire, sensor_loop >>
         ELSE /\ read_frame_returns(FALSE, sensor_loop.frame, "I2C read returned 0 bytes (EOF)")
              /\ UNCHANGED i2c_wire
    ELSE /\ real_read' = [real_read EXCEPT !.pc = "loop", !.got = @ + r.n]
         /\ sensor_loop' = [sensor_loop EXCEPT
                               !.frame = Stored(@, real_read.got, i2c_wire, r.n)]
         /\ i2c_wire' = Drop(i2c_wire, r.n)

read_frame_real_return ==
    /\ real_read.pc = "read"
    /\ \E r \in ReadResults(i2c_wire, FrameSize - real_read.got) : read_frame_real_got(r)
    /\ UNCHANGED << engine_vars, shutdown_vars, time_vars, sensor_vars, loader_vars,
                    pcap_files >>

\* read_frame_real after the first loop: the frame is returned if its CRC is
\* right, otherwise the retry starts with attempts = 0 and got = 0.
read_frame_real_validate ==
    /\ real_read.pc = "loop"
    /\ real_read.got >= FrameSize
    /\ IF validate_crc16(sensor_loop.frame)
       THEN read_frame_returns(TRUE, sensor_loop.frame, "")
       ELSE /\ real_read' = [pc |-> "retry", got |-> 0, attempts |-> 0]
            /\ UNCHANGED sensor_loop
    /\ UNCHANGED << engine_vars, shutdown_vars, time_vars, sensor_vars, loader_vars,
                    i2c_wire, pcap_files >>

\* The test of the retry loop: while (got < want && attempts++ < 2)
retry_continues == real_read.got < FrameSize /\ real_read.attempts < 2

\* read_frame_real, retry loop: the test passed, read() is called.
read_frame_real_retry_call ==
    /\ real_read.pc = "retry"
    /\ retry_continues
    /\ real_read' = [real_read EXCEPT !.pc = "retry_read", !.attempts = @ + 1]
    /\ UNCHANGED << engine_vars, shutdown_vars, time_vars, sensor_vars, loader_vars,
                    i2c_wire, sensor_loop, pcap_files >>

\* read_frame_real, retry loop: read() has returned; n <= 0 leaves the loop.
read_frame_real_retry_return ==
    /\ real_read.pc = "retry_read"
    /\ \E r \in ReadResults(i2c_wire, FrameSize - real_read.got) :
           IF r.n <= 0
           THEN /\ real_read' = [real_read EXCEPT !.pc = "retry_end"]
                /\ UNCHANGED << i2c_wire, sensor_loop >>
           ELSE /\ real_read' = [real_read EXCEPT !.pc = "retry", !.got = @ + r.n]
                /\ sensor_loop' = [sensor_loop EXCEPT
                                      !.frame = Stored(@, real_read.got, i2c_wire, r.n)]
                /\ i2c_wire' = Drop(i2c_wire, r.n)
    /\ UNCHANGED << engine_vars, shutdown_vars, time_vars, sensor_vars, loader_vars,
                    pcap_files >>

\* read_frame_real after the retry loop: true for a whole frame with the
\* right CRC, otherwise "CRC check failed on sensor frame" and false.
read_frame_real_retry_end ==
    /\ \/ real_read.pc = "retry_end"
       \/ real_read.pc = "retry" /\ ~retry_continues
    /\ IF real_read.got = FrameSize /\ validate_crc16(sensor_loop.frame)
       THEN read_frame_returns(TRUE, sensor_loop.frame, "")
       ELSE read_frame_returns(FALSE, sensor_loop.frame, "CRC check failed on sensor frame")
    /\ UNCHANGED << engine_vars, shutdown_vars, time_vars, sensor_vars, loader_vars,
                    i2c_wire, pcap_files >>

\* The sensor thread after read_frame: the frame goes to
\* correlator->push_sensor if true was returned, otherwise the error is
\* logged; then the thread sleeps for the sample interval.
sensor_thread_push ==
    /\ sensor_loop # NoLoop
    /\ sensor_loop.pc = "returned"
    /\ sensor_loop' = [sensor_loop EXCEPT
                          !.pc = "loop", !.iterations = @ + 1,
                          !.pushed = IF sensor_loop.ret THEN sensor_loop.frame ELSE @]
    /\ UNCHANGED << engine_vars, shutdown_vars, time_vars, sensor_vars, loader_vars,
                    i2c_wire, real_read, pcap_files >>

\* The loop test of sensor_thread_func finds g_shutdown_requested set.
sensor_thread_exit ==
    /\ sensor_loop # NoLoop
    /\ sensor_loop.pc = "loop"
    /\ sensor_loop' = [sensor_loop EXCEPT !.pc = "stopped"]
    /\ UNCHANGED << engine_vars, shutdown_vars, time_vars, sensor_vars, loader_vars,
                    i2c_wire, real_read, pcap_files >>

NextFrame ==
    \/ sensor_thread_start
    \/ sensor_thread_read
    \/ read_frame_real_call
    \/ read_frame_real_return
    \/ read_frame_real_validate
    \/ read_frame_real_retry_call
    \/ read_frame_real_retry_return
    \/ read_frame_real_retry_end
    \/ sensor_thread_push
    \/ sensor_thread_exit

SpecFrame == Init /\ [][NextFrame]_vars

\* The sensor thread and the device keep taking steps.
SpecFrameFair == SpecFrame /\ WF_vars(NextFrame)

\* C33: every frame that reaches push_sensor is a whole frame whose crc16 is
\* the CRC-16-CCITT of the bytes before it, in real mode (after partial
\* reads, errors and the CRC retry) and in mock mode.
C33_PushedFramesHaveValidCrc ==
    sensor_loop # NoLoop /\ sensor_loop.pushed # << >> =>
        /\ Len(sensor_loop.pushed) = FrameSize
        /\ U16At(sensor_loop.pushed, FrameSize - CrcSize + 1)
               = compute_crc16(SubSeq(sensor_loop.pushed, 1, FrameSize - CrcSize))

\* A frame was pushed in real mode after a frame that failed the CRC check.
C33_Witness ==
    /\ sensor_loop # NoLoop
    /\ ~sensor_loop.mock_mode_
    /\ sensor_loop.pushed = FrameB
    /\ sensor_loop.iterations = 1

\* C34: read_frame_real always terminates: once started it returns, whatever
\* read() returns.
C34_ReadFrameRealTerminates ==
    (real_read # NoRead) ~> (real_read = NoRead)

(***************************************************************************)
(* PcapSniffer: the capture files.  A file is named by the value of        *)
(* file_index_ it was created with (the name also holds the time of        *)
(* creation); current_pcap_file_ is 0 while it is the empty string.        *)
(***************************************************************************)
\* The most capture files that are created.
MaxFileIndex == 6

\* pcap.max_files of the configuration file.  main constructs the PcapSniffer
\* from the file Config::load has read and validated (pcap.max_files > 0);
\* a file without the key leaves the default.
MaxFilesSamples == { 1, 2, 3, get_defaults.pcap.max_files }

\* The elements of a sequence
Range(s) == { s[i] : i \in 1..Len(s) }

\* A rotate_pcap_file that lets the history reach max_files_ entries before
\* it removes one.
rotate_pcap_file_late(f) ==
    IF f.max_files_ > 0 /\ Len(f.file_history_) > f.max_files_
    THEN [f EXCEPT !.pcap_dumper_ = FALSE,
                   !.removed = @ \cup { Head(f.file_history_) },
                   !.file_history_ = Tail(@)]
    ELSE [f EXCEPT !.pcap_dumper_ = FALSE]

\* PcapSniffer::rotate_pcap_file: the dumper is closed, and when the history
\* has max_files_ entries or more its first file is removed from the disk and
\* from the history.
rotate_pcap_file(f) ==
    IF f.max_files_ > 0 /\ Len(f.file_history_) >= f.max_files_
    THEN [f EXCEPT !.pcap_dumper_ = FALSE,
                   !.removed = @ \cup { Head(f.file_history_) },
                   !.file_history_ = Tail(@)]
    ELSE [f EXCEPT !.pcap_dumper_ = FALSE]

\* The PcapSniffer is constructed: no current file, no history.
PcapSniffer ==
    /\ pcap_files = NoFiles
    /\ \E max_files \in MaxFilesSamples :
           pcap_files' = [pc |-> "constructed", max_files_ |-> max_files,
                          file_history_ |-> << >>, current_pcap_file_ |-> 0,
                          file_index_ |-> 0, pcap_dumper_ |-> FALSE, removed |-> { },
                          started |-> FALSE]
    /\ UNCHANGED << engine_vars, shutdown_vars, time_vars, sensor_vars, loader_vars,
                    i2c_wire, real_read, sensor_loop >>

\* start() reaches open_pcap_file.
start_open_pcap_file ==
    /\ pcap_files.pc = "constructed"
    /\ pcap_files' = [pcap_files EXCEPT !.pc = "open"]
    /\ UNCHANGED << engine_vars, shutdown_vars, time_vars, sensor_vars, loader_vars,
                    i2c_wire, real_read, sensor_loop >>

\* open_pcap_file, first statement: rotate_pcap_file is called and returns.
open_pcap_file_rotate ==
    /\ pcap_files.pc = "open"
    /\ pcap_files' = [rotate_pcap_file(pcap_files) EXCEPT !.pc = "rotated"]
    /\ UNCHANGED << engine_vars, shutdown_vars, time_vars, sensor_vars, loader_vars,
                    i2c_wire, real_read, sensor_loop >>

\* open_pcap_file after the rotation: the next index names the new current
\* file and pcap_dump_open creates it, or fails.  A failure in start() ends
\* start(); in the capture loop the result is not looked at.
open_pcap_file_create ==
    /\ pcap_files.pc = "rotated"
    /\ pcap_files.file_index_ < MaxFileIndex
    /\ \E opened \in BOOLEAN :
           pcap_files' = [pcap_files EXCEPT
                             !.file_index_ = @ + 1,
                             !.current_pcap_file_ = pcap_files.file_index_ + 1,
                             !.pcap_dumper_ = opened,
                             !.started = @ \/ opened,
                             !.pc = IF opened \/ pcap_files.started
                                    THEN "capturing" ELSE "start_failed"]
    /\ UNCHANGED << engine_vars, shutdown_vars, time_vars, sensor_vars, loader_vars,
                    i2c_wire, real_read, sensor_loop >>

\* capture_loop has written a packet and looks at the size of the current
\* file: fs::file_size throws (always when the file was not created), or the
\* size is within max_file_size_mb_, or it is above and the current file is
\* appended to the history before open_pcap_file is called.
capture_loop_file_size ==
    /\ pcap_files.pc = "capturing"
    /\ pcap_files.current_pcap_file_ # 0
    /\ \E size \in IF pcap_files.pcap_dumper_ THEN { "throws", "within", "above" }
                   ELSE { "throws" } :
           pcap_files' = IF size = "above"
                         THEN [pcap_files EXCEPT
                                  !.file_history_ = Append(@, pcap_files.current_pcap_file_),
                                  !.pc = "open"]
                         ELSE [pcap_files EXCEPT !.pc = "written"]
    /\ UNCHANGED << engine_vars, shutdown_vars, time_vars, sensor_vars, loader_vars,
                    i2c_wire, real_read, sensor_loop >>

\* capture_loop takes the next packet.
capture_loop_packet ==
    /\ pcap_files.pc = "written"
    /\ pcap_files' = [pcap_files EXCEPT !.pc = "capturing"]
    /\ UNCHANGED << engine_vars, shutdown_vars, time_vars, sensor_vars, loader_vars,
                    i2c_wire, real_read, sensor_loop >>

NextRotation ==
    \/ PcapSniffer
    \/ start_open_pcap_file
    \/ open_pcap_file_rotate
    \/ open_pcap_file_create
    \/ capture_loop_file_size
    \/ capture_loop_packet

SpecRotation == Init /\ [][NextRotation]_vars

\* The capture files kept: those of the history and the current one.
FilesKept(f) ==
    Range(f.file_history_) \cup (IF f.current_pcap_file_ = 0 THEN { } ELSE { f.current_pcap_file_ })

====
